---- MODULE Spec2Model ----
(***************************************************************************)
(* Remote run orchestration of pyflowreg_session_gui: RemoteRunner         *)
(* (remote_runner.py) acting on a RemoteRunState (state.py).               *)
(*                                                                         *)
(* Text.  A Python str is modelled as a sequence of lexemes (TLA+ strings).*)
(* Data that the code inspects character by character (host aliases,       *)
(* directories, job ids, clock digits, white space, quotes) is written one *)
(* character per lexeme; a fixed text of the source that is only copied    *)
(* is one lexeme.  Concatenation is \o, so f-strings and joins are         *)
(* computed, not assumed.                                                  *)
(***************************************************************************)
EXTENDS Integers, Sequences, FiniteSets, TLC

VARIABLES run_state, last, n_tmp

vars == <<run_state, last, n_tmp>>

\* Python's None (str | None, Path | None fields).
None == <<"<None>">>

\* Python truthiness of an optional string: None and "" are falsy.
Falsy(s) == s = None \/ s = <<>>

-----------------------------------------------------------------------------
(* str helpers *)

Digits == {"0", "1", "2", "3", "4", "5", "6", "7", "8", "9"}

DigitOf(d) == CASE d = 0 -> "0" [] d = 1 -> "1" [] d = 2 -> "2" [] d = 3 -> "3"
                [] d = 4 -> "4" [] d = 5 -> "5" [] d = 6 -> "6" [] d = 7 -> "7"
                [] d = 8 -> "8" [] d = 9 -> "9"

\* str(n) / f"{n}" of a non-negative int.
RECURSIVE IntStr(_)
IntStr(n) == IF n < 10 THEN <<DigitOf(n)>> ELSE IntStr(n \div 10) \o <<DigitOf(n % 10)>>

\* White space as str.strip() sees it.
White == {" ", "\n", "\t"}

RECURSIVE LStrip(_)
LStrip(s) == IF s # <<>> /\ Head(s) \in White THEN LStrip(Tail(s)) ELSE s

RECURSIVE RStrip(_)
RStrip(s) == IF s # <<>> /\ s[Len(s)] \in White THEN RStrip(SubSeq(s, 1, Len(s) - 1)) ELSE s

\* str.strip()
Strip(s) == RStrip(LStrip(s))

\* str.rstrip(chars)
RECURSIVE RStripChars(_, _)
RStripChars(s, chars) ==
    IF s # <<>> /\ s[Len(s)] \in chars THEN RStripChars(SubSeq(s, 1, Len(s) - 1), chars) ELSE s

\* str.startswith(p)
StartsWith(s, p) == Len(p) <= Len(s) /\ SubSeq(s, 1, Len(p)) = p

\* sub in s
Contains(s, sub) == \E i \in 1..(Len(s) - Len(sub) + 1) : SubSeq(s, i, i + Len(sub) - 1) = sub

\* sep.join(parts)
RECURSIVE Join(_, _)
Join(parts, sep) ==
    IF parts = <<>> THEN <<>>
    ELSE IF Len(parts) = 1 THEN parts[1]
    ELSE parts[1] \o sep \o Join(Tail(parts), sep)

\* "\n".join(part for part in parts if part)
RECURSIVE JoinNonEmpty(_, _)
JoinNonEmpty(parts, sep) ==
    IF parts = <<>> THEN <<>>
    ELSE IF parts[1] = <<>> THEN JoinNonEmpty(Tail(parts), sep)
    ELSE LET rest == JoinNonEmpty(Tail(parts), sep)
         IN IF rest = <<>> THEN parts[1] ELSE parts[1] \o sep \o rest

\* s.replace(old, new) for a one-character old.
RECURSIVE Replace(_, _, _)
Replace(s, old, new) ==
    IF s = <<>> THEN <<>>
    ELSE (IF Head(s) = old THEN new ELSE <<Head(s)>>) \o Replace(Tail(s), old, new)

\* The characters shlex.quote leaves bare: [a-zA-Z0-9@%+=:,./-] and "_".
SafeChars == Digits \cup
    {"a", "b", "c", "d", "e", "f", "g", "h", "i", "j", "k", "l", "m", "n", "o", "p", "q",
     "r", "s", "t", "u", "v", "w", "x", "y", "z",
     "A", "B", "C", "D", "E", "F", "G", "H", "I", "J", "K", "L", "M", "N", "O", "P", "Q",
     "R", "S", "T", "U", "V", "W", "X", "Y", "Z",
     "_", "@", "%", "+", "=", ":", ",", ".", "/", "-"}

\* shlex.quote(s): '' for the empty string, s itself when every character is
\* safe, else s in single quotes with each ' written '"'"'.
shlex_quote(s) ==
    IF s = <<>> THEN <<"'", "'">>
    ELSE IF \A i \in 1..Len(s) : s[i] \in SafeChars THEN s
    ELSE <<"'">> \o Replace(s, "'", <<"'", "\"", "'", "\"", "'">>) \o <<"'">>

-----------------------------------------------------------------------------
(* state.py *)

\* SbatchDefaults()
SbatchDefaults == [partition |-> <<>>, time |-> <<>>, mem |-> <<>>, cpus |-> 1, gpus |-> 0]

\* RemoteProfile(): host_alias "deigo", remote_base_dir "~/pyflowreg_runs".
RemoteProfile ==
    [host_alias |-> <<"d", "e", "i", "g", "o">>,
     remote_base_dir |-> <<"~", "/", "p", "y", "f", "l", "o", "w", "r", "e", "g", "_",
                           "r", "u", "n", "s">>,
     env_activation_cmd |-> <<>>,
     sbatch |-> SbatchDefaults]

\* RemoteRunState(): every field at its dataclass default.
RemoteRunState ==
    [run_name |-> None,
     remote_run_dir |-> None,
     local_bundle_dir |-> None,
     config_filename |-> <<"session_config.yaml">>,
     num_tasks |-> 0,
     stage1_job_id |-> None,
     stage23_job_id |-> None,
     upload_warnings |-> <<>>]

\* job_ids() with the two appends in the other order.
job_ids_Stage23First(rs) ==
    (IF ~Falsy(rs.stage23_job_id) THEN <<rs.stage23_job_id>> ELSE <<>>)
        \o (IF ~Falsy(rs.stage1_job_id) THEN <<rs.stage1_job_id>> ELSE <<>>)

\* RemoteRunState.job_ids(): the truthy ids, Stage-1 first.
job_ids(rs) ==
    (IF ~Falsy(rs.stage1_job_id) THEN <<rs.stage1_job_id>> ELSE <<>>)
        \o (IF ~Falsy(rs.stage23_job_id) THEN <<rs.stage23_job_id>> ELSE <<>>)

-----------------------------------------------------------------------------
(* The inputs: profiles a caller passes, and what the subprocess boundary    *)
(* answers.                                                                  *)

\* A profile with every option set, as the test suite builds it
\* (tests/test_sbatch_generation.py), with a base directory ending in "/" and
\* a host alias that begins with "-" (the host field is free text).
ProfileFull ==
    [host_alias |-> <<"-", "h">>,
     remote_base_dir |-> <<"/", "w", "/">>,
     env_activation_cmd |-> <<"conda activate pyflowreg">>,
     sbatch |-> [partition |-> <<"g", "p", "u">>, time |-> <<"0", "1", ":", "0", "0">>,
                 mem |-> <<"1", "6", "G">>, cpus |-> 8, gpus |-> 1]]

Profiles == {RemoteProfile, ProfileFull}

\* What subprocess.run(check=True, capture_output=True, text=True) can do with
\* one command: return (rc = 0) or raise CalledProcessError (rc # 0), with
\* the captured streams.
HostKeyFailed == <<"Host key verification failed", ".", "\n">>

Failures ==
    {[rc |-> 255, stdout |-> <<>>, stderr |-> HostKeyFailed],
     [rc |-> 255, stdout |-> <<"o", "u", "t", "\n">>, stderr |-> <<>>],
     [rc |-> 1, stdout |-> <<"o", "u", "t">>, stderr |-> <<" ", "e", "r", "r", "\n">>]}

\* sbatch: the scheduler's reply, with or without a job id in it.
SbatchAnswers ==
    {[rc |-> 0, stdout |-> <<"Submitted batch job ", "4", "1", "\n">>, stderr |-> <<>>],
     [rc |-> 0, stdout |-> <<"Submitted batch job ", "7">>, stderr |-> <<>>],
     [rc |-> 0, stdout |-> <<"Submitted batch job ", "x">>, stderr |-> <<"w">>],
     [rc |-> 0, stdout |-> <<>>, stderr |-> <<>>]} \cup Failures

\* mkdir -p, rsync -az, scancel: silent when they succeed.
QuietAnswers == {[rc |-> 0, stdout |-> <<>>, stderr |-> <<>>]} \cup Failures

\* echo, squeue, sacct, tail: some text, or none.
TextAnswers ==
    {[rc |-> 0, stdout |-> <<"r", "o", "w", "\n">>, stderr |-> <<>>],
     [rc |-> 0, stdout |-> <<>>, stderr |-> <<>>]} \cup Failures

\* No command was run (a placeholder in events that are not commands).
NoOutcome == [rc |-> 0, stdout |-> <<>>, stderr |-> <<>>]

-----------------------------------------------------------------------------
(* Transport: RemoteRunner._run, _ssh_argv, _extract_ssh_host *)

\* SSH_COMMON_ARGS = ["-o", "BatchMode=yes"]
SSH_COMMON_ARGS == << <<"-", "o">>, <<"BatchMode=yes">> >>

\* _ssh_argv: ["ssh", *SSH_COMMON_ARGS, host_alias, "sh -lc " + quote(cmd)]
_ssh_argv(host_alias, remote_command) ==
    << <<"ssh">> >> \o SSH_COMMON_ARGS
        \o << host_alias, <<"sh -lc ">> \o shlex_quote(remote_command) >>

\* _extract_ssh_host: the second-to-last token unless it starts with "-",
\* else the token after "ssh", else "<host>".
_extract_ssh_host(argv) ==
    IF Len(argv) >= 3 /\ ~StartsWith(argv[Len(argv) - 1], <<"-">>)
    THEN argv[Len(argv) - 1]
    ELSE IF Len(argv) > 1 THEN argv[2] ELSE <<"<host>">>

\* The login test the hint gives for a host.
AcceptNewCommand(host_alias) ==
    <<"ssh -o StrictHostKeyChecking=accept-new ">> \o host_alias \o <<" \"echo connected\"">>

\* The stale-key removal the hint gives for a host.
ClearKeyCommand(host_alias) == <<"ssh-keygen -R ">> \o host_alias

\* ssh_hint_lines of _run, joined by "\n".
ssh_hint(host_alias, error_output) ==
    Join(
        << <<"SSH interactive prompts are disabled in the GUI (BatchMode=yes).">>,
           <<>>,
           <<"Run one of these once in a terminal, then retry from the GUI:">>,
           <<"1) Accept key + test login: ">> \o AcceptNewCommand(host_alias) >>
        \o (IF Contains(error_output, <<"Host key verification failed">>)
            THEN << <<"2) If key changed, clear stale key: ">> \o ClearKeyCommand(host_alias),
                    <<"3) Retry login test: ">> \o AcceptNewCommand(host_alias) >>
            ELSE <<>>),
        <<"\n">>)

\* error_output taken from the error stream alone: exc.stderr.strip().
error_output_of_StderrOnly(o) == Strip(o.stderr)

\* error_output = (exc.stderr or exc.stdout or "").strip()
error_output_of(o) == Strip(IF o.stderr # <<>> THEN o.stderr ELSE o.stdout)

\* The RuntimeError text _run raises for a command that exited non-zero.
CommandFailedMessage(argv, o) ==
    LET error_output == error_output_of(o)
        command == Join(argv, <<" ">>)
    IN  IF argv # <<>> /\ argv[1] = <<"ssh">> /\ o.rc = 255
        THEN <<"Command failed: ">> \o command \o <<"\n">>
                \o Strip(JoinNonEmpty(<<error_output,
                                        ssh_hint(_extract_ssh_host(argv), error_output)>>,
                                      <<"\n">>))
        ELSE <<"Command failed: ">> \o command \o <<"\n">> \o error_output

\* _run with check=False: the exit status is not looked at.
_run_Unchecked(argv, o) == [ok |-> TRUE, value |-> Strip(o.stdout), error |-> <<>>]

\* _run(argv) when the subprocess answers o: the stripped stdout, or the error.
_run(argv, o) ==
    IF o.rc = 0
    THEN [ok |-> TRUE, value |-> Strip(o.stdout), error |-> <<>>]
    ELSE [ok |-> FALSE, value |-> <<>>, error |-> CommandFailedMessage(argv, o)]

-----------------------------------------------------------------------------
(* Script generation *)

\* The header with every resource directive written, set or not.
_common_sbatch_lines_Unconditional(profile) ==
    << <<"#!/bin/bash">>, <<"#SBATCH -o slurm-%j.out">>,
       <<"#SBATCH --partition=">> \o profile.sbatch.partition,
       <<"#SBATCH --time=">> \o profile.sbatch.time,
       <<"#SBATCH --mem=">> \o profile.sbatch.mem,
       <<"#SBATCH --cpus-per-task=">> \o IntStr(profile.sbatch.cpus),
       <<"#SBATCH --gres=gpu:">> \o IntStr(profile.sbatch.gpus) >>

\* _common_sbatch_lines(profile)
_common_sbatch_lines(profile) ==
    << <<"#!/bin/bash">>, <<"#SBATCH -o slurm-%j.out">> >>
        \o (IF profile.sbatch.partition # <<>>
            THEN << <<"#SBATCH --partition=">> \o profile.sbatch.partition >> ELSE <<>>)
        \o (IF profile.sbatch.time # <<>>
            THEN << <<"#SBATCH --time=">> \o profile.sbatch.time >> ELSE <<>>)
        \o (IF profile.sbatch.mem # <<>>
            THEN << <<"#SBATCH --mem=">> \o profile.sbatch.mem >> ELSE <<>>)
        \o (IF profile.sbatch.cpus # 0
            THEN << <<"#SBATCH --cpus-per-task=">> \o IntStr(profile.sbatch.cpus) >> ELSE <<>>)
        \o (IF profile.sbatch.gpus # 0
            THEN << <<"#SBATCH --gres=gpu:">> \o IntStr(profile.sbatch.gpus) >> ELSE <<>>)

\* generate_stage1_sbatch_script(config_filename, num_tasks, profile)
generate_stage1_sbatch_script(config_filename, num_tasks, profile) ==
    Join(
        _common_sbatch_lines(profile)
        \o << <<"#SBATCH --array=1-">> \o IntStr(num_tasks) >>
        \o << <<>>, <<"set -euo pipefail">> >>
        \o (IF profile.env_activation_cmd # <<>> THEN <<profile.env_activation_cmd>> ELSE <<>>)
        \o << <<"python - <<'PY'">>,
              <<"import os">>,
              <<"from pyflowreg.session.config import SessionConfig">>,
              <<"from pyflowreg.session.stage1_compensate import discover_input_files, run_stage1">>,
              <<"config = SessionConfig.from_file('">> \o config_filename \o <<"')">>,
              <<"task_index = int(os.environ['SLURM_ARRAY_TASK_ID']) - 1">>,
              <<"n_files = len(list(discover_input_files(config)))">>,
              <<"if task_index >= n_files:">>,
              <<"    print(f'Skipping task {task_index}: only {n_files} files discovered.')">>,
              <<"else:">>,
              <<"    run_stage1(config, task_index=task_index)">>,
              <<"PY">>,
              <<>> >>,
        <<"\n">>)

\* The dependency directive of the Stage-2/3 script.
DependencyDirective(stage1_jobid) == <<"#SBATCH --dependency=afterok:">> \o stage1_jobid

\* generate_stage23_sbatch_script(config_filename, stage1_jobid, profile)
generate_stage23_sbatch_script(config_filename, stage1_jobid, profile) ==
    Join(
        _common_sbatch_lines(profile)
        \o << DependencyDirective(stage1_jobid) >>
        \o << <<>>, <<"set -euo pipefail">> >>
        \o (IF profile.env_activation_cmd # <<>> THEN <<profile.env_activation_cmd>> ELSE <<>>)
        \o << <<"python - <<'PY'">>,
              <<"from pyflowreg.session.config import SessionConfig">>,
              <<"from pyflowreg.session.stage2_between_avgs import run_stage2">>,
              <<"from pyflowreg.session.stage3_valid_mask import run_stage3">>,
              <<"config = SessionConfig.from_file('">> \o config_filename \o <<"')">>,
              <<"middle_idx, avg, displacements = run_stage2(config)">>,
              <<"del avg">>,
              <<"run_stage3(config, middle_idx, displacements)">>,
              <<"PY">>,
              <<>> >>,
        <<"\n">>)

-----------------------------------------------------------------------------
(* Job id parsing *)

\* The longest run of digits at the head of s: what (\d+) takes.
RECURSIVE DigitRun(_)
DigitRun(s) == IF s # <<>> /\ Head(s) \in Digits THEN <<Head(s)>> \o DigitRun(Tail(s)) ELSE <<>>

\* re.search(r"Submitted batch job (\d+)", s): group 1 of the leftmost match,
\* or <<>> when nothing matches.
RECURSIVE SearchJobId(_)
SearchJobId(s) ==
    IF s = <<>> THEN <<>>
    ELSE IF Head(s) = "Submitted batch job " /\ DigitRun(Tail(s)) # <<>>
    THEN DigitRun(Tail(s))
    ELSE SearchJobId(Tail(s))

\* _parse_job_id that passes the reply on as the id when nothing matches.
_parse_job_id_Lenient(output) ==
    LET id == SearchJobId(output)
    IN  [ok |-> TRUE, value |-> IF id = <<>> THEN output ELSE id, error |-> <<>>]

\* _parse_job_id(output)
_parse_job_id(output) ==
    LET id == SearchJobId(output)
    IN  IF id = <<>>
        THEN [ok |-> FALSE, value |-> <<>>,
              error |-> <<"Could not parse sbatch output: ">> \o output]
        ELSE [ok |-> TRUE, value |-> id, error |-> <<>>]

-----------------------------------------------------------------------------
(* What one call of an operation did: the commands it handed to the         *)
(* subprocess boundary and the files it wrote, in order, and how it ended.  *)

\* A command handed to self._run_command, with what the subprocess answered.
RunEvent(argv, o) ==
    [kind |-> "run", argv |-> argv, outcome |-> o, path |-> <<>>, text |-> <<>>,
     ok |-> o.rc = 0]

\* A local write_text / serialize call; ok = FALSE when it raised OSError.
WriteEvent(path, text, ok) ==
    [kind |-> "write", argv |-> <<>>, outcome |-> NoOutcome, path |-> path, text |-> text,
     ok |-> ok]

\* The text of the OSError a failed local write raises.
WriteErrorMessage(path) == <<"OSError: ">> \o path

\* The call returned ret, leaving the run state as state.
Returned(state, trace, ret) ==
    [state |-> state, trace |-> trace, raised |-> FALSE, error |-> <<>>, ret |-> ret]

\* The call raised an exception with text error.
Raised(state, trace, error) ==
    [state |-> state, trace |-> trace, raised |-> TRUE, error |-> error, ret |-> None]

-----------------------------------------------------------------------------
(* RunOrchestrator: RemoteRunner's operations *)

\* test_ssh that runs its command a second time when it fails.
test_ssh_Retry(profile, rs, o) ==
    LET argv == _ssh_argv(profile.host_alias, <<"echo connected">>)
        r == _run(argv, o)
    IN  IF r.ok THEN Returned(rs, <<RunEvent(argv, o)>>, r.value)
        ELSE Raised(rs, <<RunEvent(argv, o), RunEvent(argv, o)>>, r.error)

\* test_ssh(profile)
test_ssh(profile, rs, o) ==
    LET argv == _ssh_argv(profile.host_alias, <<"echo connected">>)
        r == _run(argv, o)
    IN  IF r.ok THEN Returned(rs, <<RunEvent(argv, o)>>, r.value)
        ELSE Raised(rs, <<RunEvent(argv, o)>>, r.error)

\* submit's precondition written as an "is None" test.
NotStaged_NoneOnly(rs) == rs.remote_run_dir = None

\* submit's precondition: not run_state.remote_run_dir
NotStaged(rs) == Falsy(rs.remote_run_dir)

\* The end of submit with the Stage-1 assignment left out.
RecordJobIds_Stage23Only(rs, stage1_jobid, stage23_jobid) ==
    [rs EXCEPT !.stage23_job_id = stage23_jobid]

\* The two assignments that end submit.
RecordJobIds(rs, stage1_jobid, stage23_jobid) ==
    [rs EXCEPT !.stage1_job_id = stage1_jobid, !.stage23_job_id = stage23_jobid]

\* The remote command that submits the Stage-1 array.
Stage1SubmitCommand(quoted_remote_dir) ==
    <<"cd ">> \o quoted_remote_dir \o <<" && sbatch stage1_array.sbatch">>

\* The Stage-2/3 submission without its --dependency option.
Stage23SubmitCommand_NoDependency(quoted_remote_dir, stage1_jobid) ==
    <<"cd ">> \o quoted_remote_dir \o <<" && ">> \o <<"sbatch stage23.sbatch">>

\* The remote command that submits the Stage-2/3 job.
Stage23SubmitCommand(quoted_remote_dir, stage1_jobid) ==
    <<"cd ">> \o quoted_remote_dir \o <<" && ">>
        \o <<"sbatch --dependency=afterok:">> \o stage1_jobid \o <<" stage23.sbatch">>

\* submit(profile, run_state), the subprocess answering o1 (Stage-1 sbatch),
\* o2 (rsync of stage23.sbatch), o3 (Stage-2/3 sbatch) and the local write of
\* stage23.sbatch succeeding iff w.
submit(profile, rs, o1, w, o2, o3) ==
    IF NotStaged(rs)
    THEN Raised(rs, <<>>, <<"No remote run directory available. Upload first.">>)
    ELSE
    LET quoted_remote_dir == shlex_quote(rs.remote_run_dir)
        argv1 == _ssh_argv(profile.host_alias, Stage1SubmitCommand(quoted_remote_dir))
        r1 == _run(argv1, o1)
        t1 == <<RunEvent(argv1, o1)>>
    IN  IF ~r1.ok THEN Raised(rs, t1, r1.error) ELSE
    LET p1 == _parse_job_id(r1.value)
    IN  IF ~p1.ok THEN Raised(rs, t1, p1.error) ELSE
        IF rs.local_bundle_dir = None
        THEN Raised(rs, t1, <<"Local bundle directory is missing.">>) ELSE
    LET stage1_jobid == p1.value
        stage23_script ==
            generate_stage23_sbatch_script(rs.config_filename, stage1_jobid, profile)
        stage23_path == rs.local_bundle_dir \o <<"/", "stage23.sbatch">>
        t2 == t1 \o <<WriteEvent(stage23_path, stage23_script, w)>>
    IN  IF ~w THEN Raised(rs, t2, WriteErrorMessage(stage23_path)) ELSE
    LET argv2 == << <<"rsync">>, <<"-", "a", "z">>, stage23_path,
                    profile.host_alias \o <<":">> \o rs.remote_run_dir
                        \o <<"/", "stage23.sbatch">> >>
        r2 == _run(argv2, o2)
        t3 == t2 \o <<RunEvent(argv2, o2)>>
    IN  IF ~r2.ok THEN Raised(rs, t3, r2.error) ELSE
    LET argv3 == _ssh_argv(profile.host_alias,
                           Stage23SubmitCommand(quoted_remote_dir, stage1_jobid))
        r3 == _run(argv3, o3)
        t4 == t3 \o <<RunEvent(argv3, o3)>>
    IN  IF ~r3.ok THEN Raised(rs, t4, r3.error) ELSE
    LET p3 == _parse_job_id(r3.value)
    IN  IF ~p3.ok THEN Raised(rs, t4, p3.error) ELSE
        Returned(RecordJobIds(rs, stage1_jobid, p3.value), t4, <<stage1_jobid, p3.value>>)

\* A test for missing job ids that never finds them missing.
NoJobs_Never(ids) == FALSE

\* refresh_status's precondition: not job_ids
NoJobs(ids) == ids = <<>>

\* refresh_status without the try/except around the sacct query.
refresh_status_SacctPropagates(profile, rs, o1, o2) ==
    LET ids == job_ids(rs)
    IN  IF NoJobs(ids) THEN Raised(rs, <<>>, <<"No submitted jobs to query.">>) ELSE
    LET joined_job_ids == Join(ids, <<",">>)
        argv1 == _ssh_argv(profile.host_alias,
                           <<"squeue -j ">> \o joined_job_ids
                               \o <<" -o ", "'", "%i %T %M %R", "'">>)
        r1 == _run(argv1, o1)
        t1 == <<RunEvent(argv1, o1)>>
    IN  IF ~r1.ok THEN Raised(rs, t1, r1.error) ELSE
    LET argv2 == _ssh_argv(profile.host_alias,
                           <<"sacct -j ">> \o joined_job_ids
                               \o <<" --format=JobID,State,Elapsed,MaxRSS --noheader">>)
        r2 == _run(argv2, o2)
    IN  IF ~r2.ok THEN Raised(rs, t1 \o <<RunEvent(argv2, o2)>>, r2.error) ELSE
        Returned(rs, t1 \o <<RunEvent(argv2, o2)>>,
                 <<"squeue:", "\n">>
                     \o (IF r1.value # <<>> THEN r1.value ELSE <<"(no rows)">>)
                     \o <<"\n", "\n", "sacct:", "\n">>
                     \o (IF r2.value # <<>> THEN r2.value ELSE <<"(no rows)">>))

\* refresh_status(profile, run_state), the subprocess answering o1 (squeue)
\* and o2 (sacct).
refresh_status(profile, rs, o1, o2) ==
    LET ids == job_ids(rs)
    IN  IF NoJobs(ids) THEN Raised(rs, <<>>, <<"No submitted jobs to query.">>) ELSE
    LET joined_job_ids == Join(ids, <<",">>)
        argv1 == _ssh_argv(profile.host_alias,
                           <<"squeue -j ">> \o joined_job_ids
                               \o <<" -o ", "'", "%i %T %M %R", "'">>)
        r1 == _run(argv1, o1)
        t1 == <<RunEvent(argv1, o1)>>
    IN  IF ~r1.ok THEN Raised(rs, t1, r1.error) ELSE
    LET argv2 == _ssh_argv(profile.host_alias,
                           <<"sacct -j ">> \o joined_job_ids
                               \o <<" --format=JobID,State,Elapsed,MaxRSS --noheader">>)
        r2 == _run(argv2, o2)
        sacct_output == IF r2.ok THEN r2.value ELSE <<"(sacct unavailable)">>
    IN  Returned(rs, t1 \o <<RunEvent(argv2, o2)>>,
                 <<"squeue:", "\n">>
                     \o (IF r1.value # <<>> THEN r1.value ELSE <<"(no rows)">>)
                     \o <<"\n", "\n", "sacct:", "\n">>
                     \o (IF sacct_output # <<>> THEN sacct_output ELSE <<"(no rows)">>))

\* tail_latest_log that also wants a submitted job.
tail_latest_log_NeedsJobs(profile, rs, lines, o) ==
    IF Falsy(rs.remote_run_dir) \/ job_ids(rs) = <<>>
    THEN Raised(rs, <<>>, <<"No remote run directory available.">>)
    ELSE
    LET argv == _ssh_argv(profile.host_alias,
                          <<"cd ">> \o shlex_quote(rs.remote_run_dir) \o <<" && ">>
                              \o <<"latest=$(ls -1t slurm*.out 2>/dev/null | head -n 1); ">>
                              \o <<"if [ -n \"$latest\" ]; then tail -n ">> \o IntStr(lines)
                              \o <<" \"$latest\"; ">>
                              \o <<"else echo ", "'", "No slurm logs found.", "'", "; fi">>)
        r == _run(argv, o)
    IN  IF r.ok THEN Returned(rs, <<RunEvent(argv, o)>>, r.value)
        ELSE Raised(rs, <<RunEvent(argv, o)>>, r.error)

\* tail_latest_log(profile, run_state, lines)
tail_latest_log(profile, rs, lines, o) ==
    IF Falsy(rs.remote_run_dir)
    THEN Raised(rs, <<>>, <<"No remote run directory available.">>)
    ELSE
    LET argv == _ssh_argv(profile.host_alias,
                          <<"cd ">> \o shlex_quote(rs.remote_run_dir) \o <<" && ">>
                              \o <<"latest=$(ls -1t slurm*.out 2>/dev/null | head -n 1); ">>
                              \o <<"if [ -n \"$latest\" ]; then tail -n ">> \o IntStr(lines)
                              \o <<" \"$latest\"; ">>
                              \o <<"else echo ", "'", "No slurm logs found.", "'", "; fi">>)
        r == _run(argv, o)
    IN  IF r.ok THEN Returned(rs, <<RunEvent(argv, o)>>, r.value)
        ELSE Raised(rs, <<RunEvent(argv, o)>>, r.error)

\* The list of ids taken as given, empty ids included.
FilterTruthy_Unfiltered(ids) == ids

\* [job_id for job_id in job_ids if job_id]
RECURSIVE FilterTruthy(_)
FilterTruthy(ids) ==
    IF ids = <<>> THEN <<>>
    ELSE (IF Falsy(Head(ids)) THEN <<>> ELSE <<Head(ids)>>) \o FilterTruthy(Tail(ids))

\* A cancel that forgets the job ids once scancel has succeeded.
cancel_jobs_ForgetsIds(profile, rs, ids, o) ==
    LET filtered_job_ids == FilterTruthy(ids)
    IN  IF filtered_job_ids = <<>> THEN Returned(rs, <<>>, None) ELSE
    LET argv == _ssh_argv(profile.host_alias,
                          <<"scancel ">> \o Join(filtered_job_ids, <<" ">>))
        r == _run(argv, o)
    IN  IF r.ok THEN Returned(RecordJobIds(rs, None, None), <<RunEvent(argv, o)>>, None)
        ELSE Raised(rs, <<RunEvent(argv, o)>>, r.error)

\* cancel_jobs(profile, job_ids)
cancel_jobs(profile, rs, ids, o) ==
    LET filtered_job_ids == FilterTruthy(ids)
    IN  IF filtered_job_ids = <<>> THEN Returned(rs, <<>>, None) ELSE
    LET argv == _ssh_argv(profile.host_alias,
                          <<"scancel ">> \o Join(filtered_job_ids, <<" ">>))
        r == _run(argv, o)
    IN  IF r.ok THEN Returned(rs, <<RunEvent(argv, o)>>, None)
        ELSE Raised(rs, <<RunEvent(argv, o)>>, r.error)

-----------------------------------------------------------------------------
(* prepare_and_upload *)

\* FALLBACK_ARRAY_TASKS
FALLBACK_ARRAY_TASKS == 2048

\* The bounds of the model: the last second the clock can show, and how many
\* staging directories are made.
MaxTime == 1

\* What datetime.now() can show, in seconds of one minute.
Times == 0..MaxTime

MaxUploads == 2

\* datetime.now().strftime('%Y%m%d_%H%M%S') when the clock shows second t of
\* 2026-11-06 10:58.
Strftime(t) ==
    <<"2", "0", "2", "6", "1", "1", "0", "6", "_", "1", "0", "5", "8">>
        \o <<DigitOf(t \div 10), DigitOf(t % 10)>>

\* tempfile.mkdtemp(prefix="pyflowreg_session_gui_"): the k-th fresh directory.
Mkdtemp(k) == <<"/tmp/pyflowreg_session_gui_">> \o IntStr(k)

\* What discover_input_files_for_config(config) can do: raise, or return n items.
Discoveries ==
    {[raised |-> TRUE, n |-> 0], [raised |-> FALSE, n |-> 0],
     [raised |-> FALSE, n |-> 3]}

\* The text serialize_config_to_yaml writes for the mapped configuration.
SerializedConfig == <<"<yaml of the mapped configuration>">>

\* The call of discover_input_files_for_config: it raised (ok = FALSE, text the
\* exception's text) or returned n items.
DiscoverEvent(d) ==
    [kind |-> "discover", argv |-> <<>>, outcome |-> NoOutcome, path |-> <<>>,
     text |-> IF d.raised THEN <<"boom">> ELSE IntStr(d.n), ok |-> ~d.raised, n |-> d.n]

\* The discovery step with the fallback left out: a count of 0 is kept.
DiscoverTasks_NoFallback(d) ==
    [num_tasks |-> IF d.raised THEN 0 ELSE d.n,
     upload_warnings |->
         IF d.raised THEN << <<"Local input discovery failed: ", "boom">> >> ELSE <<>>]

\* num_tasks and upload_warnings as prepare_and_upload computes them from the
\* discovery result d.
DiscoverTasks(d) ==
    LET w0 == IF d.raised THEN << <<"Local input discovery failed: ", "boom">> >> ELSE <<>>
        n0 == IF d.raised THEN 0 ELSE d.n
    IN  IF n0 < 1
        THEN [num_tasks |-> FALLBACK_ARRAY_TASKS,
              upload_warnings |->
                  (IF w0 = <<>> THEN << <<"Local input discovery found 0 files.">> >> ELSE w0)
                  \o << <<"Using fallback Stage1 array size ">>
                        \o IntStr(FALLBACK_ARRAY_TASKS) \o <<". ">>
                        \o <<"Tasks beyond discovered files will auto-skip on the cluster.">> >>]
        ELSE [num_tasks |-> n0, upload_warnings |-> w0]

\* An assignment that carries the job ids of the record held before over to
\* the new one.
HoldRunState_KeepIds(rs, new) ==
    [new EXCEPT !.stage1_job_id = rs.stage1_job_id, !.stage23_job_id = rs.stage23_job_id]

\* self._state.remote_run = run_state: the caller holds the returned record
\* in place of rs.
HoldRunState(rs, new) == new

\* prepare_and_upload(config, profile, mappings) at clock second t, with k
\* the staging directory mkdtemp makes, d the discovery result, w1 and w2
\* whether the two local writes succeed, o1 (mkdir) and o2 (rsync) the
\* subprocess's answers.  rs is the run state the caller holds, which a
\* failed call leaves alone.
prepare_and_upload(profile, rs, t, k, d, w1, w2, o1, o2) ==
    LET run_name == <<"r", "u", "n", "_">> \o Strftime(t)
        remote_run_dir == RStripChars(profile.remote_base_dir, {"/"}) \o <<"/">> \o run_name
        disc == DiscoverTasks(d)
        local_bundle_dir == Mkdtemp(k)
        config_filename == <<"session_config.yaml">>
        config_path == local_bundle_dir \o <<"/">> \o config_filename
        t1 == <<DiscoverEvent(d), WriteEvent(config_path, SerializedConfig, w1)>>
    IN  IF ~w1 THEN Raised(rs, t1, WriteErrorMessage(config_path)) ELSE
    LET stage1_script == generate_stage1_sbatch_script(config_filename, disc.num_tasks, profile)
        stage1_path == local_bundle_dir \o <<"/", "stage1_array.sbatch">>
        t2 == t1 \o <<WriteEvent(stage1_path, stage1_script, w2)>>
    IN  IF ~w2 THEN Raised(rs, t2, WriteErrorMessage(stage1_path)) ELSE
    LET argv1 == _ssh_argv(profile.host_alias, <<"mkdir -p ">> \o shlex_quote(remote_run_dir))
        r1 == _run(argv1, o1)
        t3 == t2 \o <<RunEvent(argv1, o1)>>
    IN  IF ~r1.ok THEN Raised(rs, t3, r1.error) ELSE
    LET argv2 == << <<"rsync">>, <<"-", "a", "z">>, local_bundle_dir \o <<"/">>,
                    profile.host_alias \o <<":">> \o remote_run_dir \o <<"/">> >>
        r2 == _run(argv2, o2)
        t4 == t3 \o <<RunEvent(argv2, o2)>>
    IN  IF ~r2.ok THEN Raised(rs, t4, r2.error) ELSE
        Returned(HoldRunState(rs, [RemoteRunState EXCEPT
                                       !.run_name = run_name,
                                       !.remote_run_dir = remote_run_dir,
                                       !.local_bundle_dir = local_bundle_dir,
                                       !.config_filename = config_filename,
                                       !.num_tasks = disc.num_tasks,
                                       !.upload_warnings = disc.upload_warnings]),
                 t4, None)

-----------------------------------------------------------------------------
(* Directory listings: _parse_directory_listing as a pure function of the   *)
(* remote output.  A sentinel prefix is one lexeme, everything else one      *)
(* character per lexeme.                                                     *)

\* text.startswith("__BASE__:")
BaseMarker == "__BASE__:"

\* text.startswith("__WARN_NOT_DIR__:")
WarnMarker == "__WARN_NOT_DIR__:"

\* output.splitlines(): the pieces between line feeds, no empty last piece.
RECURSIVE SplitLinesFrom(_, _)
SplitLinesFrom(s, line) ==
    IF s = <<>> THEN (IF line = <<>> THEN <<>> ELSE <<line>>)
    ELSE IF Head(s) = "\n" THEN <<line>> \o SplitLinesFrom(Tail(s), <<>>)
    ELSE SplitLinesFrom(Tail(s), Append(line, Head(s)))

SplitLines(s) == SplitLinesFrom(s, <<>>)

\* The code point order of the characters in use (a sentinel prefix begins
\* with "_").
CharRank(c) ==
    CASE c = "\t" -> 9 [] c = "\n" -> 10 [] c = " " -> 32 [] c = "/" -> 47 [] c = "B" -> 66
      [] c = "\\" -> 92 [] c = BaseMarker -> 95 [] c = WarnMarker -> 95
      [] c = "a" -> 97 [] c = "b" -> 98 [] c = "g" -> 103 [] c = "h" -> 104
      [] c = "x" -> 120 [] OTHER -> 127

\* s <= t as Python compares str.
RECURSIVE StrLessEq(_, _)
StrLessEq(s, t) ==
    IF s = <<>> THEN TRUE
    ELSE IF t = <<>> THEN FALSE
    ELSE IF Head(s) = Head(t) THEN StrLessEq(Tail(s), Tail(t))
    ELSE CharRank(Head(s)) < CharRank(Head(t))

\* sorted(S) for a set of strings.
RECURSIVE Sorted(_)
Sorted(S) ==
    IF S = {} THEN <<>>
    ELSE LET least == CHOOSE x \in S : \A y \in S : StrLessEq(x, y)
         IN  <<least>> \o Sorted(S \ {least})

\* The children as collected, duplicates and order kept.
deduped_children_AsCollected(children) == children

\* deduped_children = sorted(set(children))
deduped_children(children) == Sorted({children[i] : i \in 1..Len(children)})

\* A test for a missing base path that never finds it missing.
MissingBase_Never(base_path) == FALSE

\* not base_path
MissingBase(base_path) == base_path = <<>>

\* The loop of _parse_directory_listing over the lines that are left, acc
\* being base_path and children so far.
RECURSIVE ScanListing(_, _)
ScanListing(lines, acc) ==
    IF lines = <<>> THEN acc
    ELSE LET text == Strip(Head(lines))
         IN  ScanListing(Tail(lines),
                 IF text = <<>> THEN acc
                 ELSE IF Head(text) = BaseMarker THEN [acc EXCEPT !.base_path = Tail(text)]
                 ELSE IF Head(text) = WarnMarker THEN acc
                 ELSE [acc EXCEPT !.children = Append(@, text)])

\* RemoteDirectoryListing(path, children)
RemoteDirectoryListing(path, children) == [path |-> path, children |-> children]

\* _parse_directory_listing(output)
_parse_directory_listing(output) ==
    LET acc == ScanListing(SplitLines(output), [base_path |-> <<>>, children |-> <<>>])
    IN  IF MissingBase(acc.base_path)
        THEN [ok |-> FALSE, value |-> None,
              error |-> <<"Could not parse remote directory listing output:", "\n">> \o output]
        ELSE [ok |-> TRUE,
              value |-> RemoteDirectoryListing(acc.base_path, deduped_children(acc.children)),
              error |-> <<>>]

\* list_remote_directory(profile, directory), the subprocess answering o.
list_remote_directory(profile, rs, directory, o) ==
    LET requested_dir == IF Strip(directory) # <<>> THEN Strip(directory) ELSE <<"~">>
        command ==
            <<"requested=">> \o shlex_quote(requested_dir) \o <<"; ">>
                \o <<"case \"$requested\" in ">>
                \o <<"\"~\") requested=\"$HOME\" ;; \"~/\"*) requested=\"$HOME/${requested#??}\" ;; ">>
                \o <<"esac; ">>
                \o <<"if [ ! -d \"$requested\" ]; then ">>
                \o <<"echo \"__WARN_NOT_DIR__:$requested\"; ">>
                \o <<"requested=\"$HOME\"; ">>
                \o <<"fi; ">>
                \o <<"printf \"__BASE__:%s\\n\" \"$requested\"; ">>
                \o <<"find \"$requested\" -mindepth 1 -maxdepth 1 -type d 2>/dev/null | sort">>
        argv == _ssh_argv(profile.host_alias, command)
        r == _run(argv, o)
        t == <<RunEvent(argv, o)>>
    IN  IF ~r.ok THEN Raised(rs, t, r.error) ELSE
    LET parsed == _parse_directory_listing(r.value)
    IN  IF parsed.ok THEN Returned(rs, t, parsed.value) ELSE Raised(rs, t, parsed.error)

\* max(1, int(n))
AtLeastOne(n) == IF n < 1 THEN 1 ELSE n

\* The loop of list_remote_directories over the lines that are left:
\* stripped, blank and already seen values skipped.
RECURSIVE FirstSeen(_, _)
FirstSeen(lines, directories) ==
    IF lines = <<>> THEN directories
    ELSE LET value == Strip(Head(lines))
         IN  FirstSeen(Tail(lines),
                 IF value = <<>> \/ \E i \in 1..Len(directories) : directories[i] = value
                 THEN directories ELSE Append(directories, value))

\* (start_dir or profile.remote_base_dir or "~").strip() or "~"
RequestedDir(profile, start_dir) ==
    LET first == IF ~Falsy(start_dir) THEN start_dir
                 ELSE IF profile.remote_base_dir # <<>> THEN profile.remote_base_dir
                 ELSE <<"~">>
    IN  IF Strip(first) # <<>> THEN Strip(first) ELSE <<"~">>

\* list_remote_directories(profile, start_dir, max_depth=, limit=), the
\* subprocess answering o.
list_remote_directories(profile, rs, start_dir, max_depth, limit, o) ==
    LET requested_dir == RequestedDir(profile, start_dir)
        safe_depth == AtLeastOne(max_depth)
        safe_limit == AtLeastOne(limit)
        command ==
            <<"base=">> \o shlex_quote(requested_dir) \o <<"; ">>
                \o <<"case \"$base\" in \"~\") base=\"$HOME\" ;; \"~/\"*) base=\"$HOME/${base#??}\" ;; esac; ">>
                \o <<"mkdir -p \"$base\" >/dev/null 2>&1 || true; ">>
                \o <<"printf \"%s\\n\" \"$base\"; ">>
                \o <<"find \"$base\" -mindepth 1 -maxdepth ">> \o IntStr(safe_depth)
                \o <<" -type d 2>/dev/null ">>
                \o <<"| sort | head -n ">> \o IntStr(safe_limit)
        argv == _ssh_argv(profile.host_alias, command)
        r == _run(argv, o)
        t == <<RunEvent(argv, o)>>
    IN  IF ~r.ok THEN Raised(rs, t, r.error)
        ELSE Returned(rs, t, FirstSeen(SplitLines(r.value), <<>>))

-----------------------------------------------------------------------------
(* The state machine: a caller that holds one RemoteRunState and calls the  *)
(* operations in any order, as RunRemoteTab does with AppState.remote_run.  *)

\* The record of the last call: the operation, its profile, the run state it
\* was given, and what it did; args holds the job ids a cancel was given.
Call(op, profile, pre, r) ==
    [op |-> op, profile |-> profile, pre |-> pre, trace |-> r.trace,
     raised |-> r.raised, error |-> r.error, ret |-> r.ret, args |-> <<>>]

NoCall ==
    [op |-> "none", profile |-> RemoteProfile, pre |-> RemoteRunState, trace |-> <<>>,
     raised |-> FALSE, error |-> <<>>, ret |-> None, args |-> <<>>]

Init ==
    /\ run_state = RemoteRunState
    /\ last = NoCall
    /\ n_tmp = 0

\* An operation is called once the caller has taken note of the previous
\* call's result.
Idle == last = NoCall

\* The answers a call is given are canonical: an operation that stops at a
\* command that exited non-zero, or at a failed write, asks nothing further,
\* so what follows is fixed (PlaceHolder for a command, TRUE for a write).
PlaceHolder == [rc |-> 0, stdout |-> <<>>, stderr |-> <<>>]

\* The caller takes note of the result (the tab shows it, or its dialog is
\* dismissed).
Acknowledge ==
    /\ ~Idle
    /\ last' = NoCall
    /\ UNCHANGED <<run_state, n_tmp>>

TestSsh ==
    /\ Idle
    /\ \E profile \in Profiles, o \in TextAnswers :
        LET r == test_ssh(profile, run_state, o)
        IN  /\ run_state' = r.state
            /\ last' = Call("test_ssh", profile, run_state, r)
            /\ UNCHANGED n_tmp

\* The caller keeps the returned run state (RunRemoteTab._on_upload).
PrepareAndUpload ==
    /\ Idle
    /\ n_tmp < MaxUploads
    /\ \E profile \in Profiles, t \in Times, d \in Discoveries, w1, w2 \in BOOLEAN,
          o1, o2 \in QuietAnswers :
        /\ ~w1 => w2
        /\ ~(w1 /\ w2) => o1 = PlaceHolder
        /\ o1.rc # 0 => o2 = PlaceHolder
        /\ LET r == prepare_and_upload(profile, run_state, t, n_tmp + 1, d, w1, w2, o1, o2)
           IN  /\ run_state' = r.state
               /\ last' = Call("prepare_and_upload", profile, run_state, r)
               /\ n_tmp' = n_tmp + 1

\* The scheduler gives no two jobs the same id.
SameJobTwice(o1, o3) ==
    /\ o1.rc = 0
    /\ o3.rc = 0
    /\ SearchJobId(o1.stdout) # <<>>
    /\ SearchJobId(o1.stdout) = SearchJobId(o3.stdout)

Submit ==
    /\ Idle
    /\ \E profile \in Profiles, w \in BOOLEAN, o1, o3 \in SbatchAnswers, o2 \in QuietAnswers :
        /\ o1.rc # 0 => w
        /\ (o1.rc # 0 \/ ~w) => o2 = PlaceHolder
        /\ (o1.rc # 0 \/ ~w \/ o2.rc # 0) => o3 = PlaceHolder
        /\ ~SameJobTwice(o1, o3)
        /\ LET r == submit(profile, run_state, o1, w, o2, o3)
           IN  /\ run_state' = r.state
               /\ last' = Call("submit", profile, run_state, r)
               /\ UNCHANGED n_tmp

RefreshStatus ==
    /\ Idle
    /\ \E profile \in Profiles, o1, o2 \in TextAnswers :
        /\ o1.rc # 0 => o2 = PlaceHolder
        /\ LET r == refresh_status(profile, run_state, o1, o2)
           IN  /\ run_state' = r.state
               /\ last' = Call("refresh_status", profile, run_state, r)
               /\ UNCHANGED n_tmp

TailLog ==
    /\ Idle
    /\ \E profile \in Profiles, o \in TextAnswers :
        LET r == tail_latest_log(profile, run_state, 200, o)
        IN  /\ run_state' = r.state
            /\ last' = Call("tail_log", profile, run_state, r)
            /\ UNCHANGED n_tmp

\* Ids a caller may name explicitly (RunRemoteTab's cancel field).
ExplicitIds == { << <<>> >>, << <<>>, <<"4", "1">>, <<"9">> >> }

\* cancel with explicit ids, or with the run state's job_ids().
Cancel ==
    /\ Idle
    /\ \E profile \in Profiles, ids \in ExplicitIds \cup {job_ids(run_state)},
          o \in QuietAnswers :
        LET r == cancel_jobs(profile, run_state, ids, o)
        IN  /\ run_state' = r.state
            /\ last' = [Call("cancel", profile, run_state, r) EXCEPT !.args = ids]
            /\ UNCHANGED n_tmp

\* The caller reads run_state.job_ids() (RunRemoteTab._on_refresh, _on_cancel).
JobIds ==
    /\ Idle
    /\ last' = Call("job_ids", RemoteProfile, run_state,
                    Returned(run_state, <<>>, job_ids(run_state)))
    /\ UNCHANGED <<run_state, n_tmp>>

\* What the remote answers to the command of list_remote_directory: a
\* listing with its sentinel, one with a warning first, lines without a
\* sentinel, or a failure.
ListingAnswers ==
    {[rc |-> 0, stderr |-> <<>>,
      stdout |-> <<BaseMarker, "/", "h", "\n", "/", "h", "/", "b", "\n", "/", "h", "/", "a", "\n">>],
     [rc |-> 0, stderr |-> <<>>,
      stdout |-> <<WarnMarker, "/", "x", "\n", BaseMarker, "/", "h", "\n">>],
     [rc |-> 0, stderr |-> <<>>, stdout |-> <<"/", "h", "/", "a", "\n">>]} \cup Failures

\* The directories the browser dialog asks for (RunRemoteTab._on_list_remote_dirs).
BrowsedDirs == {<<" ">>, <<"~", "/", "r">>}

\* The browser dialog fetches a listing; the run state is not touched.
ListRemoteDirectory ==
    /\ Idle
    /\ \E profile \in Profiles, directory \in BrowsedDirs, o \in ListingAnswers :
        LET r == list_remote_directory(profile, run_state, directory, o)
        IN  /\ run_state' = r.state
            /\ last' = [Call("list_remote_directory", profile, run_state, r)
                            EXCEPT !.args = <<directory>>]
            /\ UNCHANGED n_tmp

Next ==
    \/ Acknowledge
    \/ JobIds
    \/ TestSsh
    \/ PrepareAndUpload
    \/ Submit
    \/ RefreshStatus
    \/ TailLog
    \/ Cancel
    \/ ListRemoteDirectory

Spec == Init /\ [][Next]_vars

\* The operations as functions of their arguments: they are called on any
\* RemoteRunState a caller can build (the dataclass's fields are public), not
\* only on those the operations themselves produce.
AnyIds == {None, <<>>, <<"4", "1">>, <<"7">>}

AnyRunStates ==
    {[RemoteRunState EXCEPT !.remote_run_dir = d, !.local_bundle_dir = b,
                            !.stage1_job_id = a, !.stage23_job_id = c] :
        d \in {None, <<>>, <<"/", "w", "/", "r">>}, b \in {None, <<"/", "t">>},
        a \in AnyIds, c \in AnyIds}

InitAny ==
    /\ run_state \in AnyRunStates
    /\ last = NoCall
    /\ n_tmp = 0

\* The operations that take a run state.
NextAny ==
    \/ Acknowledge
    \/ JobIds
    \/ Submit
    \/ RefreshStatus
    \/ TailLog
    \/ Cancel

SpecAny == InitAny /\ [][NextAny]_vars

-----------------------------------------------------------------------------
(* map_path: a pure function of a path and a list of PathMapping records,  *)
(* strings as sequences of characters.                                      *)

\* The characters of "/\\": the two path separators.
Separators == {"/", "\\"}

\* str.lstrip(chars)
RECURSIVE LStripChars(_, _)
LStripChars(s, chars) ==
    IF s # <<>> /\ Head(s) \in chars THEN LStripChars(Tail(s), chars) ELSE s

\* PathMapping(local_prefix, remote_prefix)
PathMapping(local_prefix, remote_prefix) ==
    [local_prefix |-> local_prefix, remote_prefix |-> remote_prefix]

\* A prefix test that does not look at what follows the prefix.
Matches_AnyPrefix(raw, local_prefix) == StartsWith(raw, local_prefix)

\* raw == local_prefix or raw.startswith(local_prefix + "/")
\*                      or raw.startswith(local_prefix + "\\")
Matches(raw, local_prefix) ==
    \/ raw = local_prefix
    \/ StartsWith(raw, local_prefix \o <<"/">>)
    \/ StartsWith(raw, local_prefix \o <<"\\">>)

\* A comparison under which every later match replaces the earlier one.
Longer_Always(local_prefix, best_local_prefix) == TRUE

\* len(local_prefix) > len(best_local_prefix)
Longer(local_prefix, best_local_prefix) == Len(local_prefix) > Len(best_local_prefix)

\* best_mapping = None, best_local_prefix = ""
NoBest == [found |-> FALSE, mapping |-> PathMapping(<<>>, <<>>), local_prefix |-> <<>>]

\* The loop of map_path with the local prefixes taken as written, their
\* trailing separators kept.
RECURSIVE best_mapping_Unstripped(_, _, _)
best_mapping_Unstripped(raw, mappings, best) ==
    IF mappings = <<>> THEN best
    ELSE LET mapping == Head(mappings)
             local_prefix == mapping.local_prefix
         IN  best_mapping_Unstripped(raw, Tail(mappings),
                 IF /\ local_prefix # <<>>
                    /\ Matches(raw, local_prefix)
                    /\ Longer(local_prefix, best.local_prefix)
                 THEN [found |-> TRUE, mapping |-> mapping, local_prefix |-> local_prefix]
                 ELSE best)

\* The loop of map_path over the mappings that are left, best being
\* best_mapping and best_local_prefix so far.
RECURSIVE best_mapping(_, _, _)
best_mapping(raw, mappings, best) ==
    IF mappings = <<>> THEN best
    ELSE LET mapping == Head(mappings)
             local_prefix == RStripChars(mapping.local_prefix, Separators)
         IN  best_mapping(raw, Tail(mappings),
                 IF /\ local_prefix # <<>>
                    /\ Matches(raw, local_prefix)
                    /\ Longer(local_prefix, best.local_prefix)
                 THEN [found |-> TRUE, mapping |-> mapping, local_prefix |-> local_prefix]
                 ELSE best)

\* map_path(path_value, mappings)
map_path(raw, mappings) ==
    LET best == best_mapping(raw, mappings, NoBest)
    IN  IF ~best.found THEN raw ELSE
    LET suffix == LStripChars(SubSeq(raw, Len(best.local_prefix) + 1, Len(raw)), Separators)
        remote_prefix == RStripChars(best.mapping.remote_prefix, {"/"})
    IN  IF suffix = <<>> THEN remote_prefix
        ELSE remote_prefix \o <<"/">> \o Replace(suffix, "\\", <<"/">>)

\* The longest list of mappings map_path is given.
MaxMappings == 2

\* Paths: under one prefix, under a nested prefix, equal to a prefix, beside
\* a prefix (/dp), with a backslash, with a doubled separator, elsewhere,
\* the root alone, the empty path.
Paths ==
    {<<"/", "d", "/", "p", "/", "f">>, <<"/", "d", "/", "f">>, <<"/", "d", "/", "p">>,
     <<"/", "d">>, <<"/", "d", "p">>, <<"/", "d", "\\", "f">>, <<"/", "d", "/", "/", "f">>,
     <<"/", "o", "/", "f">>, <<"/">>, <<>>}

LocalPrefixes ==
    {<<"/", "d">>, <<"/", "d", "/">>, <<"/", "d", "/", "p">>, <<"/", "d", "\\">>, <<"/">>, <<>>}

RemotePrefixes == {<<"/", "r">>, <<"/", "s", "/">>}

Mappings == {PathMapping(l, r) : l \in LocalPrefixes, r \in RemotePrefixes}

\* The lists of at most n mappings.
RECURSIVE MappingLists(_)
MappingLists(n) ==
    IF n = 0 THEN {<<>>}
    ELSE LET shorter == MappingLists(n - 1)
         IN  shorter \cup {Append(l, m) : l \in {x \in shorter : Len(x) = n - 1}, m \in Mappings}

\* A call of map_path about to be made, args being its arguments.
InitMap ==
    /\ run_state = RemoteRunState
    /\ n_tmp = 0
    /\ \E path \in Paths, mappings \in MappingLists(MaxMappings) :
          last = [NoCall EXCEPT !.op = "map_path_call", !.args = <<path, mappings>>]

\* The call returns.
MapPath ==
    /\ last.op = "map_path_call"
    /\ last' = [last EXCEPT !.op = "map_path",
                            !.ret = map_path(last.args[1], last.args[2])]
    /\ UNCHANGED <<run_state, n_tmp>>

NextMap == MapPath

SpecMap == InitMap /\ [][NextMap]_vars

-----------------------------------------------------------------------------
(* Directory listings: the inputs and the specification of the pure        *)
(* functions.                                                                *)

\* The most lines a remote output has.
MaxLines == 3

\* Lines of a remote output: the base sentinel (with a path, with another,
\* with none), the warning, children (one of them padded with white space),
\* and a blank line.
ListingLines ==
    {<<BaseMarker, "/", "h">>, <<BaseMarker, "/", "g">>, <<BaseMarker>>,
     <<WarnMarker, "/", "x">>,
     <<"/", "h", "/", "b">>, <<"/", "h", "/", "a">>, <<" ", "/", "h", "/", "a", " ">>,
     <<"/", "h", "/", "B">>, <<>>}

\* The outputs of at most n lines, each line ended by a line feed.
RECURSIVE ListingOutputs(_)
ListingOutputs(n) ==
    IF n = 0 THEN {<<>>}
    ELSE LET shorter == ListingOutputs(n - 1)
         IN  shorter \cup {l \o <<"\n">> \o o : l \in ListingLines, o \in shorter}

\* The remote side of list_remote_directories.  $HOME on the remote host:
Home == <<"/", "h">>

\* case "$base" in "~") base="$HOME" ;; "~/"*) base="$HOME/${base#??}" ;; esac
ResolveBase(requested_dir) ==
    IF requested_dir = <<"~">> THEN Home
    ELSE IF StartsWith(requested_dir, <<"~", "/">>)
         THEN Home \o <<"/">> \o SubSeq(requested_dir, 3, Len(requested_dir))
    ELSE requested_dir

\* Directory trees below the base: each directory by its path relative to
\* the base and its depth.
Trees ==
    {{},
     {[rel |-> <<"a">>, depth |-> 1]},
     {[rel |-> <<"a">>, depth |-> 1], [rel |-> <<"b">>, depth |-> 1]},
     {[rel |-> <<"a">>, depth |-> 1], [rel |-> <<"a", "/", "x">>, depth |-> 2],
      [rel |-> <<"b">>, depth |-> 1]}}

\* The lines of a list, each ended by a line feed.
RECURSIVE Unlines(_)
Unlines(lines) ==
    IF lines = <<>> THEN <<>> ELSE Head(lines) \o <<"\n">> \o Unlines(Tail(lines))

\* What the remote shell prints for the command of list_remote_directories:
\* printf "%s\n" "$base"; find "$base" -mindepth 1 -maxdepth D -type d | sort | head -n N
RemoteShallowOutput(tree, requested_dir, safe_depth, safe_limit) ==
    LET base == ResolveBase(requested_dir)
        found == Sorted({base \o <<"/">> \o d.rel : d \in {x \in tree : x.depth <= safe_depth}})
        kept == SubSeq(found, 1, IF Len(found) < safe_limit THEN Len(found) ELSE safe_limit)
    IN  base \o <<"\n">> \o Unlines(kept)

\* Arguments list_remote_directories is called with.
StartDirs == {None, <<"~">>, <<" ", "/", "h", " ">>}

Depths == {0, 2}

Limits == {0, 1, 2, 200}

\* A call about to be made: of _parse_directory_listing on some output, or of
\* list_remote_directories against some remote tree (or a failing ssh).
InitListing ==
    /\ run_state = RemoteRunState
    /\ n_tmp = 0
    /\ \/ \E output \in ListingOutputs(MaxLines) :
             last = [NoCall EXCEPT !.op = "parse_listing_call", !.args = <<output>>]
       \/ \E profile \in Profiles, start_dir \in StartDirs, max_depth \in Depths,
             limit \in Limits, tree \in Trees, failure \in Failures \cup {NoOutcome} :
             LET shown == RemoteShallowOutput(tree, RequestedDir(profile, start_dir),
                                              AtLeastOne(max_depth), AtLeastOne(limit))
                 o == IF failure = NoOutcome
                      THEN [rc |-> 0, stdout |-> shown, stderr |-> <<>>] ELSE failure
             IN  /\ failure # NoOutcome => tree = {}
                 /\ last = [NoCall EXCEPT !.op = "list_directories_call",
                                          !.profile = profile,
                                          !.args = <<start_dir, max_depth, limit, o>>]

\* The call of list_remote_directories returns or raises.
ListRemoteDirectories ==
    /\ last.op = "list_directories_call"
    /\ LET r == list_remote_directories(last.profile, run_state, last.args[1],
                                        last.args[2], last.args[3], last.args[4])
       IN  last' = [Call("list_remote_directories", last.profile, run_state, r)
                       EXCEPT !.args = last.args]
    /\ UNCHANGED <<run_state, n_tmp>>

\* The call returns a listing or raises.
ParseDirectoryListing ==
    /\ last.op = "parse_listing_call"
    /\ LET r == _parse_directory_listing(last.args[1])
       IN  last' = [last EXCEPT !.op = "parse_listing", !.raised = ~r.ok,
                               !.error = r.error, !.ret = r.value]
    /\ UNCHANGED <<run_state, n_tmp>>

NextListing ==
    \/ ParseDirectoryListing
    \/ ListRemoteDirectories

SpecListing == InitListing /\ [][NextListing]_vars

-----------------------------------------------------------------------------
(* The Stage-1 array on the cluster: the scheduler runs one task for each   *)
(* id of the script's array directive, and each task runs the script's      *)
(* embedded program against the n_files items the cluster sees.             *)

\* int(...) of a string of digits.
RECURSIVE IntOf(_)
IntOf(digits) ==
    IF digits = <<>> THEN 0
    ELSE 10 * IntOf(SubSeq(digits, 1, Len(digits) - 1))
             + (CHOOSE d \in 0..9 : DigitOf(d) = digits[Len(digits)])

\* The last id of the script's "#SBATCH --array=1-<N>" directive.
ArrayLast(script) ==
    LET i == CHOOSE j \in 1..Len(script) : script[j] = "#SBATCH --array=1-"
    IN  IntOf(DigitRun(SubSeq(script, i + 1, Len(script))))

\* The task index taken to be the array id itself.
task_index_Unshifted(array_task_id) == array_task_id

\* task_index = int(os.environ['SLURM_ARRAY_TASK_ID']) - 1
task_index(array_task_id) == array_task_id - 1

\* What the embedded program does in the task with the given array id, st
\* being the account of the array so far: if task_index >= n_files it prints
\* the skip message and ends (exit status 0), else it calls
\* run_stage1(config, task_index=task_index).
Stage1Task(st, array_task_id, n_files) ==
    LET index == task_index(array_task_id)
    IN  IF index >= n_files
        THEN [st EXCEPT !.next = array_task_id + 1, !.skipped = @ + 1]
        ELSE [st EXCEPT !.next = array_task_id + 1,
                        !.ran = [i \in DOMAIN @ |-> IF i = index THEN @[i] + 1 ELSE @[i]]]

\* The largest task count given to the generator besides the fallback, and
\* the most items the cluster sees.
MaxTasks == 3

MaxFiles == 3

NumTasks == (1..MaxTasks) \cup {FALLBACK_ARRAY_TASKS}

\* A call of generate_stage1_sbatch_script about to be made, and the number
\* of items the cluster will see.
InitStage1 ==
    /\ run_state = RemoteRunState
    /\ n_tmp = 0
    /\ \E profile \in Profiles, num_tasks \in NumTasks, n_files \in 0..MaxFiles :
          last = [NoCall EXCEPT !.op = "stage1_script_call", !.profile = profile,
                               !.args = <<num_tasks, n_files>>]

\* The script is generated and submitted; no task has run yet.
GenerateStage1Script ==
    /\ last.op = "stage1_script_call"
    /\ last' = [last EXCEPT
                   !.op = "stage1_array",
                   !.ret = [script |-> generate_stage1_sbatch_script(
                                           <<"session_config.yaml">>, last.args[1],
                                           last.profile),
                            next |-> 1,
                            ran |-> [i \in 0..(last.args[2] - 1) |-> 0],
                            skipped |-> 0]]
    /\ UNCHANGED <<run_state, n_tmp>>

\* The scheduler runs the next task of the array.
RunArrayTask ==
    /\ last.op = "stage1_array"
    /\ last.ret.next <= ArrayLast(last.ret.script)
    /\ last' = [last EXCEPT !.ret = Stage1Task(last.ret, last.ret.next, last.args[2])]
    /\ UNCHANGED <<run_state, n_tmp>>

NextStage1 ==
    \/ GenerateStage1Script
    \/ RunArrayTask

SpecStage1 == InitStage1 /\ [][NextStage1]_vars

-----------------------------------------------------------------------------
(* RunRemoteTab: the profile fields the user types into, and the handlers   *)
(* behind the tab's buttons.  Each handler collects the profile from the     *)
(* fields and hands it to the runner's operations.  last.args holds the      *)
(* texts of host_edit and remote_base_dir_edit; the other fields stay as     *)
(* _restore_state filled them from the default profile.                      *)

\* The profile with the two fields as they are typed, no default put in.
_collect_profile_AsTyped(host_text, base_dir_text) ==
    [RemoteProfile EXCEPT !.host_alias = Strip(host_text),
                          !.remote_base_dir = Strip(base_dir_text)]

\* _collect_profile(): text().strip() or the default.
_collect_profile(host_text, base_dir_text) ==
    [RemoteProfile EXCEPT
        !.host_alias = IF Strip(host_text) # <<>> THEN Strip(host_text)
                       ELSE <<"d", "e", "i", "g", "o">>,
        !.remote_base_dir = IF Strip(base_dir_text) # <<>> THEN Strip(base_dir_text)
                            ELSE <<"~", "/", "p", "y", "f", "l", "o", "w", "r", "e", "g", "_",
                                   "r", "u", "n", "s">>]

\* _sync_state_profile(): the collected profile (it is also kept in AppState).
_sync_state_profile(texts) == _collect_profile(texts[1], texts[2])

\* What the user can type into host_edit and remote_base_dir_edit.
HostTexts == {<<>>, <<" ", "\t">>, <<" ", "-", "h", " ">>}

BaseDirTexts == {<<" ">>, <<"/", "w", "/", " ">>}

\* What the remote answers to the tab's commands.
TabFailure == [rc |-> 255, stdout |-> <<>>, stderr |-> HostKeyFailed]

TabQuietAnswers == {PlaceHolder, TabFailure}

TabTextAnswers ==
    {[rc |-> 0, stdout |-> <<"r", "o", "w", "\n">>, stderr |-> <<>>], PlaceHolder, TabFailure}

TabSbatchAnswers ==
    {[rc |-> 0, stdout |-> <<"Submitted batch job ", "4", "1", "\n">>, stderr |-> <<>>],
     [rc |-> 0, stdout |-> <<"Submitted batch job ", "7">>, stderr |-> <<>>],
     PlaceHolder, TabFailure}

\* The tab at rest, with the texts of its two fields.
TabRest(texts) == [NoCall EXCEPT !.op = "remote_tab", !.args = texts]

TabIdle == last.op = "remote_tab"

\* The record of a handler's calls: trace holds what all of them did, the
\* outcome is that of the last one.
TabCall(op, profile, pre, trace, r, texts) ==
    [Call(op, profile, pre, r) EXCEPT !.trace = trace, !.args = texts]

\* RunRemoteTab.__init__: _restore_state() fills the fields from AppState().
InitTab ==
    /\ run_state = RemoteRunState
    /\ n_tmp = 0
    /\ last = TabRest(<<RemoteProfile.host_alias, RemoteProfile.remote_base_dir>>)

\* The user edits the two fields.
EditProfileFields ==
    /\ TabIdle
    /\ \E host_text \in HostTexts, base_dir_text \in BaseDirTexts :
          last' = TabRest(<<host_text, base_dir_text>>)
    /\ UNCHANGED <<run_state, n_tmp>>

\* The message a handler showed is dismissed, or its status text is read.
TabAcknowledge ==
    /\ ~TabIdle
    /\ last' = TabRest(last.args)
    /\ UNCHANGED <<run_state, n_tmp>>

\* _on_test_ssh
OnTestSsh ==
    /\ TabIdle
    /\ \E o \in TabTextAnswers :
        LET profile == _sync_state_profile(last.args)
            r == test_ssh(profile, run_state, o)
        IN  /\ last' = TabCall("test_ssh", profile, run_state, r.trace, r, last.args)
            /\ UNCHANGED <<run_state, n_tmp>>

\* _on_list_remote_dirs: the dialog loads start_dir when it is built; the
\* user then cancels, or accepts the root or one of its children, and an
\* accepted path that is not blank becomes the text of remote_base_dir_edit.
\* (Every later fetch of the dialog is made with the same profile.)
OnListRemoteDirs ==
    /\ TabIdle
    /\ \E o \in ListingAnswers, accepted \in BOOLEAN :
        LET profile == _sync_state_profile(last.args)
            start_dir == IF profile.remote_base_dir # <<>> THEN profile.remote_base_dir
                         ELSE <<"~">>
            root == IF Strip(start_dir) # <<>> THEN Strip(start_dir) ELSE <<"~">>
            r == list_remote_directory(profile, run_state, root, o)
        IN  /\ r.raised => ~accepted
            /\ \E selected \in (IF accepted
                                THEN {r.ret.path} \cup {r.ret.children[i] : i \in DOMAIN r.ret.children}
                                ELSE {<<>>}) :
                  last' = TabCall("list_remote_directory", profile, run_state, r.trace, r,
                                  IF accepted /\ Strip(selected) # <<>>
                                  THEN <<last.args[1], Strip(selected)>>
                                  ELSE last.args)
            /\ UNCHANGED <<run_state, n_tmp>>

\* How many uploads the tab makes.
MaxTabUploads == 1

\* The inputs of one prepare_and_upload made by the tab, in canonical form;
\* the clock shows second 0 at each of them.
UploadInputs ==
    {i \in [t : {0}, d : Discoveries, w1 : BOOLEAN, w2 : BOOLEAN,
            o1 : TabQuietAnswers, o2 : TabQuietAnswers] :
        /\ ~i.w1 => i.w2
        /\ ~(i.w1 /\ i.w2) => i.o1 = PlaceHolder
        /\ i.o1.rc # 0 => i.o2 = PlaceHolder}

\* _on_upload, with a configuration at hand: the returned run state is kept
\* unless the call raised.
OnUpload ==
    /\ TabIdle
    /\ n_tmp < MaxTabUploads
    /\ \E i \in UploadInputs :
        LET profile == _sync_state_profile(last.args)
            r == prepare_and_upload(profile, run_state, i.t, n_tmp + 1, i.d, i.w1, i.w2,
                                    i.o1, i.o2)
        IN  /\ run_state' = r.state
            /\ last' = TabCall("prepare_and_upload", profile, run_state, r.trace, r, last.args)
            /\ n_tmp' = n_tmp + 1

\* The inputs of one submit made by the tab, in canonical form.
SubmitInputs ==
    {i \in [o1 : TabSbatchAnswers, w : BOOLEAN, o2 : TabQuietAnswers, o3 : TabSbatchAnswers] :
        /\ i.o1.rc # 0 => i.w
        /\ (i.o1.rc # 0 \/ ~i.w) => i.o2 = PlaceHolder
        /\ (i.o1.rc # 0 \/ ~i.w \/ i.o2.rc # 0) => i.o3 = PlaceHolder
        /\ ~SameJobTwice(i.o1, i.o3)}

\* _on_submit with a staged run.
OnSubmit ==
    /\ TabIdle
    /\ ~Falsy(run_state.remote_run_dir)
    /\ \E i \in SubmitInputs :
        LET profile == _sync_state_profile(last.args)
            r == submit(profile, run_state, i.o1, i.w, i.o2, i.o3)
        IN  /\ run_state' = r.state
            /\ last' = TabCall("submit", profile, run_state, r.trace, r, last.args)
            /\ UNCHANGED n_tmp

\* The submission goes on whether or not the upload staged a run.
StagedAfterUpload_Always(rs) == TRUE

\* _on_submit, after _on_upload(): "if not remote_run.remote_run_dir: return".
StagedAfterUpload(rs) == ~Falsy(rs.remote_run_dir)

\* _on_submit without a staged run: _on_upload() first, which collects the
\* profile again from the same fields, and the submission only if the upload
\* staged a run.  last.pre is the run state the handler found.
OnSubmitUploadingFirst ==
    /\ TabIdle
    /\ Falsy(run_state.remote_run_dir)
    /\ n_tmp < MaxTabUploads
    /\ \E u \in UploadInputs, i \in SubmitInputs :
        LET profile == _sync_state_profile(last.args)
            r1 == prepare_and_upload(profile, run_state, u.t, n_tmp + 1, u.d, u.w1, u.w2,
                                     u.o1, u.o2)
            r2 == submit(profile, r1.state, i.o1, i.w, i.o2, i.o3)
        IN  /\ n_tmp' = n_tmp + 1
            /\ r1.raised =>
                  i = [o1 |-> TabFailure, w |-> TRUE, o2 |-> PlaceHolder, o3 |-> PlaceHolder]
            /\ IF ~StagedAfterUpload(r1.state)
               THEN /\ run_state' = r1.state
                    /\ last' = TabCall("prepare_and_upload", profile, run_state, r1.trace, r1,
                                       last.args)
               ELSE /\ run_state' = r2.state
                    /\ last' = TabCall("submit", profile, run_state, r1.trace \o r2.trace, r2,
                                       last.args)

\* _on_submit without a staged run and without a valid configuration:
\* _on_upload() returns at once, and so does _on_submit.
OnSubmitWithoutConfig ==
    /\ TabIdle
    /\ Falsy(run_state.remote_run_dir)
    /\ last' = [TabRest(last.args) EXCEPT !.op = "submit_without_config",
                                          !.profile = _sync_state_profile(last.args),
                                          !.pre = run_state]
    /\ UNCHANGED <<run_state, n_tmp>>

\* What _on_refresh did: the commands it ran, the warning it showed, and the
\* texts it put into status_view and log_view (None: the view was not set).
RefreshDone(trace, warning, status_view, log_view) ==
    [trace |-> trace, warning |-> warning, status_view |-> status_view,
     log_view |-> log_view]

\* An _on_refresh that gives up when the status query fails.
_on_refresh_StopsAtFailure(profile, rs, o1, o2, o3) ==
    IF Falsy(rs.remote_run_dir)
    THEN RefreshDone(<<>>, <<"Upload a run before refreshing status.">>, None, None)
    ELSE
    LET r1 == refresh_status(profile, rs, o1, o2)
        r2 == tail_latest_log(profile, rs, 200, o3)
    IN  IF job_ids(rs) # <<>> /\ r1.raised
        THEN RefreshDone(r1.trace, <<>>, <<"Status query failed: ">> \o r1.error, None)
        ELSE RefreshDone((IF job_ids(rs) # <<>> THEN r1.trace ELSE <<>>) \o r2.trace, <<>>,
                         IF job_ids(rs) # <<>> THEN r1.ret ELSE <<"No submitted jobs yet.">>,
                         IF r2.raised THEN <<"Log tail failed: ">> \o r2.error ELSE r2.ret)

\* _on_refresh(), the subprocess answering o1 (squeue), o2 (sacct) and o3 (the
\* log tail): without a staged run a warning and nothing else; otherwise
\* refresh_status if there are job ids, then tail_latest_log, the exception
\* of either turned into the text of its view.
_on_refresh(profile, rs, o1, o2, o3) ==
    IF Falsy(rs.remote_run_dir)
    THEN RefreshDone(<<>>, <<"Upload a run before refreshing status.">>, None, None)
    ELSE
    LET r1 == refresh_status(profile, rs, o1, o2)
        status_chunks == IF job_ids(rs) # <<>>
                         THEN (IF r1.raised THEN <<"Status query failed: ">> \o r1.error
                               ELSE r1.ret)
                         ELSE <<"No submitted jobs yet.">>
        r2 == tail_latest_log(profile, rs, 200, o3)
        logs == IF r2.raised THEN <<"Log tail failed: ">> \o r2.error ELSE r2.ret
    IN  RefreshDone((IF job_ids(rs) # <<>> THEN r1.trace ELSE <<>>) \o r2.trace, <<>>,
                    status_chunks, logs)

\* _on_refresh: last.ret holds the warning and the two views.
OnRefresh ==
    /\ TabIdle
    /\ \E o1, o2, o3 \in TabTextAnswers :
        /\ o1.rc # 0 => o2 = PlaceHolder
        /\ job_ids(run_state) = <<>> => (o1 = PlaceHolder /\ o2 = PlaceHolder)
        /\ Falsy(run_state.remote_run_dir) => o3 = PlaceHolder
        /\ LET profile == _sync_state_profile(last.args)
               done == _on_refresh(profile, run_state, o1, o2, o3)
           IN  /\ last' = TabCall(IF done.warning # <<>> THEN "refresh_without_run"
                                  ELSE "refresh",
                                  profile, run_state, done.trace,
                                  Returned(run_state, done.trace,
                                           [warning |-> done.warning,
                                            status_view |-> done.status_view,
                                            log_view |-> done.log_view]),
                                  last.args)
               /\ UNCHANGED <<run_state, n_tmp>>

\* text.replace(",", " ").split(): the runs of characters between commas
\* and whitespace.
RECURSIVE SplitFieldFrom(_, _)
SplitFieldFrom(text, word) ==
    IF text = <<>> THEN (IF word = <<>> THEN <<>> ELSE <<word>>)
    ELSE IF Head(text) \in White \cup {","}
         THEN (IF word = <<>> THEN <<>> ELSE <<word>>) \o SplitFieldFrom(Tail(text), <<>>)
         ELSE SplitFieldFrom(Tail(text), Append(word, Head(text)))

\* What the user can type into cancel_job_edit.
CancelFieldTexts == {<<>>, <<" ", ",">>, <<"4", "1", ",", " ", "9">>}

\* What _on_cancel did: the commands it ran, the warning it showed, the ids it
\* read from the field, and how cancel_jobs ended.
CancelDone(trace, warning, explicit, raised, error) ==
    [trace |-> trace, warning |-> warning, explicit |-> explicit, raised |-> raised,
     error |-> error]

\* An _on_cancel that cancels the run state's jobs whenever it has any.
_on_cancel_RunStateFirst(profile, rs, text, o) ==
    LET explicit == SplitFieldFrom(text, <<>>)
        ids == IF job_ids(rs) # <<>> THEN job_ids(rs) ELSE explicit
    IN  IF ids = <<>>
        THEN CancelDone(<<>>, <<"No job ids available to cancel.">>, explicit, FALSE, <<>>)
        ELSE LET r == cancel_jobs(profile, rs, ids, o)
             IN  CancelDone(r.trace, <<>>, explicit, r.raised, r.error)

\* _on_cancel() with text in cancel_job_edit, the subprocess answering o.
_on_cancel(profile, rs, text, o) ==
    LET explicit == SplitFieldFrom(text, <<>>)
        ids == IF explicit # <<>> THEN explicit ELSE job_ids(rs)
    IN  IF ids = <<>>
        THEN CancelDone(<<>>, <<"No job ids available to cancel.">>, explicit, FALSE, <<>>)
        ELSE LET r == cancel_jobs(profile, rs, ids, o)
             IN  CancelDone(r.trace, <<>>, explicit, r.raised, r.error)

\* _on_cancel: last.ret holds the warning and the ids read from the field.
OnCancel ==
    /\ TabIdle
    /\ \E text \in CancelFieldTexts, o \in TabQuietAnswers :
        LET profile == _sync_state_profile(last.args)
            done == _on_cancel(profile, run_state, text, o)
        IN  /\ done.trace = <<>> => o = PlaceHolder
            /\ last' = [TabCall(IF done.warning # <<>> THEN "cancel_without_ids"
                                ELSE "cancel",
                                profile, run_state, done.trace,
                                Returned(run_state, done.trace,
                                         [warning |-> done.warning,
                                          explicit |-> done.explicit]),
                                last.args)
                        EXCEPT !.raised = done.raised, !.error = done.error]
            /\ UNCHANGED <<run_state, n_tmp>>

NextTab ==
    \/ EditProfileFields
    \/ TabAcknowledge
    \/ OnTestSsh
    \/ OnListRemoteDirs
    \/ OnUpload
    \/ OnSubmit
    \/ OnSubmitUploadingFirst
    \/ OnSubmitWithoutConfig
    \/ OnRefresh
    \/ OnCancel

SpecTab == InitTab /\ [][NextTab]_vars

-----------------------------------------------------------------------------
(* RunLocalTab and its LocalRunner.  last.ret holds the tab: the runs the   *)
(* runner has in progress, the signals it has emitted that the tab has not   *)
(* handled yet, whether the run buttons are enabled, the number of runs      *)
(* started so far, what the last start request came to, and the last of the  *)
(* run_started / run_finished events handled.  last.pre holds the tab as it  *)
(* was before the last handler ran.                                          *)

\* The most runs started.
MaxRuns == 3

\* RunLocalTab.__init__: no run, the buttons enabled.
LocalTab ==
    [active |-> 0, signals |-> <<>>, buttons_enabled |-> TRUE, runs |-> 0,
     outcome |-> "none", last_run_event |-> "none"]

\* LocalRunner.is_running(): a run is in progress.
is_running(tab) == tab.active > 0

\* LocalRunner.start(config, mode): a run begins and run_started is emitted.
LocalRunner_start(tab) ==
    [tab EXCEPT !.active = @ + 1, !.runs = @ + 1,
                !.signals = Append(@, [name |-> "run_started", exit_code |-> 0])]

\* _start_run without the is_running() test.
_start_run_Unguarded(tab, config, start_raises) ==
    IF config = None THEN [tab EXCEPT !.outcome = "no_config"]
    ELSE IF start_raises THEN [tab EXCEPT !.outcome = "raised"]
    ELSE [LocalRunner_start(tab) EXCEPT !.outcome = "started"]

\* _start_run(mode): nothing without a configuration; the "Busy" warning if
\* a run is in progress; else the runner is started, and an exception of
\* start() is shown.
_start_run(tab, config, start_raises) ==
    IF config = None THEN [tab EXCEPT !.outcome = "no_config"]
    ELSE IF is_running(tab) THEN [tab EXCEPT !.outcome = "busy"]
    ELSE IF start_raises THEN [tab EXCEPT !.outcome = "raised"]
    ELSE [LocalRunner_start(tab) EXCEPT !.outcome = "started"]

\* _set_buttons_enabled(enabled)
_set_buttons_enabled(tab, enabled) == [tab EXCEPT !.buttons_enabled = enabled]

\* _on_run_started()
_on_run_started(tab) ==
    [_set_buttons_enabled(tab, FALSE) EXCEPT !.last_run_event = "run_started"]

\* _on_run_finished(exit_code)
_on_run_finished(tab, exit_code) ==
    [_set_buttons_enabled(tab, TRUE) EXCEPT !.last_run_event = "run_finished"]

\* _on_run_failed(message): the message is logged and shown.
_on_run_failed(tab, message) == tab

\* The record of the last handler of the local tab.
LocalCall(op, pre, tab, args) ==
    [NoCall EXCEPT !.op = op, !.pre = pre, !.ret = tab, !.args = args]

\* What the config provider hands out: a configuration, or None.
LocalConfigs == {<<"<config>">>, None}

Modes == {<<"all">>, <<"stage1">>, <<"stage2">>, <<"stage3">>}

InitLocal ==
    /\ run_state = RemoteRunState
    /\ n_tmp = 0
    /\ last = LocalCall("local_tab", LocalTab, LocalTab, <<>>)

\* A start request: one of the four buttons' clicked signals.
StartRun ==
    /\ last.ret.runs < MaxRuns
    /\ \E mode \in Modes, config \in LocalConfigs, start_raises \in BOOLEAN :
          /\ (config = None \/ is_running(last.ret)) => ~start_raises
          /\ last' = LocalCall("_start_run", last.ret,
                               _start_run(last.ret, config, start_raises), <<mode>>)
    /\ UNCHANGED <<run_state, n_tmp>>

\* A run in progress ends: with exit code 0, or with a failure that is
\* reported by run_failed, followed or not by run_finished.
RunEnds ==
    /\ last.ret.active > 0
    /\ \E emitted \in {<< [name |-> "run_finished", exit_code |-> 0] >>,
                       << [name |-> "run_failed", exit_code |-> 1],
                          [name |-> "run_finished", exit_code |-> 1] >>,
                       << [name |-> "run_failed", exit_code |-> 1] >>} :
          last' = LocalCall("run_ends", last.ret,
                            [last.ret EXCEPT !.active = @ - 1, !.signals = @ \o emitted],
                            <<>>)
    /\ UNCHANGED <<run_state, n_tmp>>

\* The tab handles the oldest signal of the runner.
HandleSignal ==
    /\ last.ret.signals # <<>>
    /\ LET signal == Head(last.ret.signals)
           tab == [last.ret EXCEPT !.signals = Tail(@)]
       IN  last' = LocalCall(signal.name, last.ret,
                             CASE signal.name = "run_started" -> _on_run_started(tab)
                               [] signal.name = "run_finished"
                                     -> _on_run_finished(tab, signal.exit_code)
                               [] OTHER -> _on_run_failed(tab, <<"failed">>),
                             <<>>)
    /\ UNCHANGED <<run_state, n_tmp>>

NextLocal ==
    \/ StartRun
    \/ RunEnds
    \/ HandleSignal

SpecLocal == InitLocal /\ [][NextLocal]_vars

-----------------------------------------------------------------------------
(* map_config_paths.  A configuration is an object on the heap, a sequence   *)
(* of objects indexed by their identity; an object maps its attribute names  *)
(* to values, a value being absent, None, a str, a Path or some other        *)
(* object (an inline flow_options dict).                                     *)

Absent == [type |-> "absent", text |-> <<>>]

NoneValue == [type |-> "None", text |-> <<>>]

StrValue(text) == [type |-> "str", text |-> text]

ObjectValue == [type |-> "object", text |-> <<"<dict>">>]

\* A run of "/" written once.
RECURSIVE CollapseSlashes(_)
CollapseSlashes(s) ==
    IF Len(s) < 2 THEN s
    ELSE IF s[1] = "/" /\ s[2] = "/" THEN CollapseSlashes(Tail(s))
    ELSE <<s[1]>> \o CollapseSlashes(Tail(s))

\* str(Path(text)) on POSIX for a text without "." components: "." for the
\* empty text, repeated and trailing slashes dropped, exactly two leading
\* slashes kept.
PathText(text) ==
    IF text = <<>> THEN <<".">>
    ELSE LET collapsed == CollapseSlashes(text)
             trimmed == IF Len(collapsed) > 1 THEN RStripChars(collapsed, {"/"}) ELSE collapsed
         IN  IF Len(text) >= 2 /\ text[1] = "/" /\ text[2] = "/"
                /\ (Len(text) = 2 \/ text[3] # "/")
             THEN <<"/">> \o trimmed
             ELSE trimmed

\* Path(text)
PathValue(text) == [type |-> "Path", text |-> PathText(text)]

\* deep_copy_model(config): a new object with equal attributes.
deep_copy_model(heap, config) ==
    [heap |-> Append(heap, heap[config]), id |-> Len(heap) + 1]

\* hasattr(obj, field_name)
hasattr(heap, obj, field_name) == heap[obj][field_name] # Absent

\* setattr(obj, field_name, value)
setattr(heap, obj, field_name, value) == [heap EXCEPT ![obj][field_name] = value]

\* The translation of a str or Path value, of the type it had.
Translated(value, mappings) ==
    IF value.type = "Path" THEN PathValue(map_path(value.text, mappings))
    ELSE StrValue(map_path(value.text, mappings))

\* The fixed fields, with one more.
PathFields_AndScheduler == <<"root", "output_root", "final_results", "center", "scheduler">>

\* for field_name in ("root", "output_root", "final_results", "center")
PathFields == <<"root", "output_root", "final_results", "center">>

\* The loop over the field names that are left.
RECURSIVE MapFields(_, _, _, _)
MapFields(heap, mapped, field_names, mappings) ==
    IF field_names = <<>> THEN heap
    ELSE LET field_name == Head(field_names)
             value == heap[mapped][field_name]
         IN  MapFields(IF ~hasattr(heap, mapped, field_name) THEN heap
                       ELSE IF value = NoneValue \/ value = StrValue(<<>>) THEN heap
                       ELSE setattr(heap, mapped, field_name, Translated(value, mappings)),
                       mapped, Tail(field_names), mappings)

\* map_config_paths(config, mappings): the heap it leaves and the object it
\* returns.
map_config_paths(heap, config, mappings) ==
    LET copy == deep_copy_model(heap, config)
        mapped == copy.id
        heap1 == MapFields(copy.heap, mapped, PathFields, mappings)
        flow_options == IF hasattr(heap1, mapped, "flow_options")
                        THEN heap1[mapped]["flow_options"] ELSE NoneValue
    IN  [heap |-> IF flow_options.type \in {"str", "Path"}
                  THEN setattr(heap1, mapped, "flow_options",
                               Translated(flow_options, mappings))
                  ELSE heap1,
         mapped |-> mapped]

\* Configurations: the fixed fields absent, None, empty, a str or a Path;
\* flow_options a path or an inline dict; and a field outside the fixed set
\* whose value looks like a local path.
RootValues ==
    {Absent, NoneValue, StrValue(<<>>), StrValue(<<"/", "d", "/", "f">>),
     PathValue(<<"/", "d", "/", "f">>)}

OutputValues == {NoneValue, StrValue(<<"/", "d", "\\", "f">>), PathValue(<<"/", "o", "/", "f">>)}

FlowOptionsValues ==
    {Absent, NoneValue, ObjectValue, StrValue(<<"/", "d", "/", "p">>),
     PathValue(<<"/", "d", "/", "p">>)}

Configs ==
    [root : RootValues, output_root : OutputValues,
     final_results : {NoneValue, StrValue(<<"/", "d">>)},
     center : {Absent, StrValue(<<>>), StrValue(<<"/", "d", "/", "p", "/", "f">>)},
     flow_options : FlowOptionsValues,
     scheduler : {StrValue(<<"/", "d", "/", "f">>)}]

ConfigMappings ==
    {<<>>,
     <<PathMapping(<<"/", "d">>, <<"/", "r">>)>>,
     <<PathMapping(<<"/", "d", "/">>, <<"/", "s", "/">>),
       PathMapping(<<"/", "d", "/", "p">>, <<"/", "r">>)>>}

\* A call of map_config_paths about to be made: the caller's configuration is
\* object 1 of the heap.
InitConfig ==
    /\ run_state = RemoteRunState
    /\ n_tmp = 0
    /\ \E config \in Configs, mappings \in ConfigMappings :
          last = [NoCall EXCEPT !.op = "map_config_paths_call",
                               !.args = << <<config>>, 1, mappings >>]

\* The call returns.
MapConfigPaths ==
    /\ last.op = "map_config_paths_call"
    /\ last' = [last EXCEPT !.op = "map_config_paths",
                            !.ret = map_config_paths(last.args[1], last.args[2], last.args[3])]
    /\ UNCHANGED <<run_state, n_tmp>>

NextConfig == MapConfigPaths

SpecConfig == InitConfig /\ [][NextConfig]_vars

-----------------------------------------------------------------------------
(* The two script generators as pure functions of the profile.              *)

\* Profiles with each optional field set or not.
ScriptProfiles ==
    [host_alias : {RemoteProfile.host_alias},
     remote_base_dir : {RemoteProfile.remote_base_dir},
     env_activation_cmd : {<<>>, <<"conda activate pyflowreg">>},
     sbatch : [partition : {<<>>, <<"g", "p", "u">>},
               time : {<<>>, <<"0", "1", ":", "0", "0">>},
               mem : {<<>>, <<"1", "6", "G">>},
               cpus : {0, 1, 8},
               gpus : {0, 2}]]

\* A call of one of the generators about to be made.
InitScripts ==
    /\ run_state = RemoteRunState
    /\ n_tmp = 0
    /\ \E profile \in ScriptProfiles, script \in {"stage1", "stage23"} :
          last = [NoCall EXCEPT !.op = "script_call", !.profile = profile,
                               !.args = <<script>>]

\* generate_stage1_sbatch_script returns.
GenerateStage1 ==
    /\ last.op = "script_call"
    /\ last.args = <<"stage1">>
    /\ last' = [last EXCEPT
                   !.op = "script",
                   !.ret = generate_stage1_sbatch_script(<<"session_config.yaml">>, 42,
                                                         last.profile)]
    /\ UNCHANGED <<run_state, n_tmp>>

\* generate_stage23_sbatch_script returns.
GenerateStage23 ==
    /\ last.op = "script_call"
    /\ last.args = <<"stage23">>
    /\ last' = [last EXCEPT
                   !.op = "script",
                   !.ret = generate_stage23_sbatch_script(<<"session_config.yaml">>,
                                                          <<"4", "1">>, last.profile)]
    /\ UNCHANGED <<run_state, n_tmp>>

NextScripts ==
    \/ GenerateStage1
    \/ GenerateStage23

SpecScripts == InitScripts /\ [][NextScripts]_vars

-----------------------------------------------------------------------------
(* Properties.  Each speaks of the last call (last) and of the run state    *)
(* after it (run_state); last.pre is the run state the call was given.      *)

\* The commands of a trace, in order.
RECURSIVE Commands(_)
Commands(trace) ==
    IF trace = <<>> THEN <<>>
    ELSE (IF Head(trace).kind = "run" THEN <<Head(trace)>> ELSE <<>>) \o Commands(Tail(trace))

\* The last call ended because its last command exited non-zero.
CommandFailureRaised ==
    /\ last.raised
    /\ last.trace # <<>>
    /\ last.trace[Len(last.trace)].kind = "run"
    /\ last.trace[Len(last.trace)].outcome.rc # 0

\* The text 'Submitted batch job <digits>' occurs in a reply.
HasJobIdPattern(reply) ==
    \E i \in 1..(Len(reply) - 1) : reply[i] = "Submitted batch job " /\ reply[i + 1] \in Digits

\* The last call was a submit whose Stage-1 submission the scheduler accepted
\* with a job id in its reply.
Stage1Accepted ==
    /\ last.op = "submit"
    /\ last.trace # <<>>
    /\ last.trace[1].kind = "run"
    /\ last.trace[1].outcome.rc = 0
    /\ HasJobIdPattern(last.trace[1].outcome.stdout)

\* The id in the scheduler's reply to the last call's Stage-1 submission.
Stage1IdOfCall == _parse_job_id(Strip(last.trace[1].outcome.stdout)).value

\* C1: if submit's Stage-1 job is accepted (its id parsed) and a later step of
\* the same call fails, the run state afterwards records that id:
\* stage1_job_id is the id, stage23_job_id is null, job_ids() = [id].
C1_Stage1IdKeptOnPartialFailure ==
    (Stage1Accepted /\ last.raised) =>
        /\ run_state.stage1_job_id = Stage1IdOfCall
        /\ run_state.stage23_job_id = None
        /\ job_ids(run_state) = <<Stage1IdOfCall>>

\* C2: in every state reachable by prepare_and_upload, submit, refresh_status,
\* tail_log and cancel calls, each succeeding or failing at any step,
\* stage23_job_id is non-null only if stage1_job_id is non-null.
C2_Stage23OnlyWithStage1 ==
    run_state.stage23_job_id # None => run_state.stage1_job_id # None

\* C2's case: a submit has returned and recorded a Stage-2/3 id.
C2_Witness ==
    /\ last.op = "submit"
    /\ ~last.raised
    /\ last.pre.stage23_job_id = None
    /\ run_state.stage23_job_id # None

\* C3: job_ids() returns exactly the truthy members of (stage1_job_id,
\* stage23_job_id), Stage-1 first: [] when neither is set, [stage1] when only
\* stage1_job_id is, [stage1, stage23] when both are, and never the Stage-2/3
\* id before the Stage-1 id.
C3_JobIdsInSubmissionOrder ==
    last.op = "job_ids" =>
        LET s1 == last.pre.stage1_job_id
            s23 == last.pre.stage23_job_id
            set1 == s1 # None /\ s1 # <<>>
            set23 == s23 # None /\ s23 # <<>>
        IN  /\ (~set1 /\ ~set23) => last.ret = <<>>
            /\ (set1 /\ ~set23) => last.ret = <<s1>>
            /\ (set1 /\ set23) => last.ret = <<s1, s23>>
            /\ (~set1 /\ set23) => last.ret = <<s23>>
            /\ \A i \in 1..Len(last.ret) : last.ret[i] # None /\ last.ret[i] # <<>>

\* C3's case: job_ids() was read on a state with two different ids.
C3_Witness ==
    /\ last.op = "job_ids"
    /\ last.pre.stage1_job_id = <<"4", "1">>
    /\ last.pre.stage23_job_id = <<"7">>
    /\ last.ret = << <<"4", "1">>, <<"7">> >>

\* A command line enforces non-interactive authentication: it carries
\* BatchMode=yes (ssh's -o option, or inside rsync's remote-shell option).
EnforcesBatchMode(argv) ==
    \E j \in 1..Len(argv) : Contains(argv[j], <<"BatchMode=yes">>)

\* C4: every command handed to the subprocess boundary that contacts the
\* remote host (each ssh command and each rsync synchronization) enforces
\* non-interactive authentication (BatchMode).
C4_EveryRemoteCommandBatchMode ==
    \A i \in 1..Len(last.trace) :
        last.trace[i].kind = "run" => EnforcesBatchMode(last.trace[i].argv)

\* C5: when a command whose argv starts with ssh fails with exit status 255,
\* the error contains the recipe naming the host alias passed to the SSH
\* builder: always the accept-new login test, and the clear-stale-key command
\* exactly when the error text indicates a failed host key verification; for
\* any other command or exit status only the generic message is produced.
C5_RecipeNamesHostAlias ==
    CommandFailureRaised =>
        LET e == last.trace[Len(last.trace)]
            host == last.profile.host_alias
            streams == IF e.outcome.stderr # <<>> THEN e.outcome.stderr ELSE e.outcome.stdout
        IN  IF e.argv[1] = <<"ssh">> /\ e.outcome.rc = 255
            THEN /\ Contains(last.error,
                             <<"ssh -o StrictHostKeyChecking=accept-new ">> \o host
                                 \o <<" \"echo connected\"">>)
                 /\ Contains(last.error, <<"ssh-keygen -R ">> \o host)
                        <=> Contains(streams, <<"Host key verification failed">>)
            ELSE last.error = <<"Command failed: ">> \o Join(e.argv, <<" ">>) \o <<"\n">>
                                  \o Strip(streams)

\* C6: every error that propagates because a command exited non-zero carries
\* the joined command line of the failing command and its captured error
\* stream, trimmed (the captured standard output when the error stream is
\* empty), in the generic and in the SSH-255 variant.
C6_ErrorCarriesCommandAndText ==
    CommandFailureRaised =>
        LET e == last.trace[Len(last.trace)]
            streams == IF e.outcome.stderr # <<>> THEN e.outcome.stderr ELSE e.outcome.stdout
        IN  /\ Contains(last.error, Join(e.argv, <<" ">>))
            /\ Contains(last.error, Strip(streams))

\* C6's case: an ssh command failed with status 255 and an empty error
\* stream, so the text is the captured standard output.
C6_Witness ==
    /\ CommandFailureRaised
    /\ last.trace[Len(last.trace)].argv[1] = <<"ssh">>
    /\ last.trace[Len(last.trace)].outcome.rc = 255
    /\ last.trace[Len(last.trace)].outcome.stderr = <<>>
    /\ Contains(last.error, <<"o", "u", "t">>)

\* C7: within one operation each remote command is executed at most once,
\* and once a command fails nothing further is executed and the operation
\* fails, except that refresh_status returns after its accounting query fails.
C7_NoRetry ==
    LET cmds == Commands(last.trace)
    IN  /\ \A i, j \in 1..Len(cmds) : cmds[i].argv = cmds[j].argv => i = j
        /\ \A i \in 1..Len(last.trace) :
              (last.trace[i].kind = "run" /\ last.trace[i].outcome.rc # 0) =>
                  /\ i = Len(last.trace)
                  /\ last.raised \/ (last.op = "refresh_status" /\ Len(cmds) = 2)

\* C7's case: submit's rsync failed after the Stage-1 submission.
C7_Witness ==
    /\ last.op = "submit"
    /\ Len(last.trace) = 3
    /\ last.trace[3].kind = "run"
    /\ last.trace[3].outcome.rc # 0
    /\ last.raised

\* C8: submit on a run state whose remote_run_dir is null or empty fails with
\* the not-staged error before any remote command, and leaves the run state
\* unchanged.
C8_SubmitNeedsStagedRun ==
    (last.op = "submit" /\ (last.pre.remote_run_dir = None \/ last.pre.remote_run_dir = <<>>)) =>
        /\ last.raised
        /\ last.error = <<"No remote run directory available. Upload first.">>
        /\ last.trace = <<>>
        /\ run_state = last.pre

\* C8's case: submit was called with an empty remote_run_dir.
C8_Witness ==
    /\ last.op = "submit"
    /\ last.pre.remote_run_dir = <<>>
    /\ last.raised

\* C9: submit's steps come in the order Stage-1 submission, parse of its id,
\* write of stage23.sbatch, its sync, Stage-2/3 submission; nothing of
\* Stage-2/3 happens before a Stage-1 id is parsed; the script's dependency
\* directive and the submission's afterok dependency name the id parsed from
\* this call's Stage-1 reply; on success both ids are returned and recorded.
C9_SubmitOrderAndDependency ==
    (last.op = "submit" /\ last.trace # <<>>) =>
        LET tr == last.trace
            host == last.profile.host_alias
            dir == last.pre.remote_run_dir
        IN  /\ Len(tr) <= 4
            /\ tr[1].kind = "run"
            /\ Contains(tr[1].argv[5], <<" && sbatch stage1_array.sbatch">>)
            /\ Len(tr) >= 2 =>
                  /\ Stage1Accepted
                  /\ tr[2].kind = "write"
                  /\ tr[2].path = last.pre.local_bundle_dir \o <<"/", "stage23.sbatch">>
                  /\ Contains(tr[2].text,
                              <<"\n", "#SBATCH --dependency=afterok:">> \o Stage1IdOfCall
                                  \o <<"\n">>)
            /\ Len(tr) >= 3 =>
                  /\ tr[2].ok
                  /\ tr[3].kind = "run"
                  /\ tr[3].argv[1] = <<"rsync">>
                  /\ tr[3].argv[3] = tr[2].path
                  /\ tr[3].argv[4] = host \o <<":">> \o dir \o <<"/", "stage23.sbatch">>
            /\ Len(tr) >= 4 =>
                  /\ tr[3].outcome.rc = 0
                  /\ tr[4].kind = "run"
                  /\ tr[4].argv[1] = <<"ssh">>
                  /\ Contains(tr[4].argv[5],
                              <<"sbatch --dependency=afterok:">> \o Stage1IdOfCall
                                  \o <<" stage23.sbatch">>)
            /\ ~last.raised =>
                  /\ Len(tr) = 4
                  /\ HasJobIdPattern(tr[4].outcome.stdout)
                  /\ last.ret = <<Stage1IdOfCall, _parse_job_id(tr[4].outcome.stdout).value>>
                  /\ run_state.stage1_job_id = last.ret[1]
                  /\ run_state.stage23_job_id = last.ret[2]

\* C9's case: a submit went through all its steps and returned.
C9_Witness ==
    /\ last.op = "submit"
    /\ ~last.raised
    /\ Len(last.trace) = 4
    /\ run_state.stage1_job_id = <<"7">>
    /\ run_state.stage23_job_id = <<"4", "1">>

\* C10: if the scheduler's reply to the Stage-1 submission does not contain
\* 'Submitted batch job <digits>', submit fails with the unparseable
\* submission error, no Stage-2/3 script is written, synced or submitted, and
\* the call records no job id (the run state is unchanged).
C10_UnparseableStage1Reply ==
    (/\ last.op = "submit"
     /\ last.trace # <<>>
     /\ last.trace[1].outcome.rc = 0
     /\ ~HasJobIdPattern(last.trace[1].outcome.stdout)) =>
        /\ last.raised
        /\ last.error = <<"Could not parse sbatch output: ">>
                            \o Strip(last.trace[1].outcome.stdout)
        /\ Len(last.trace) = 1
        /\ run_state = last.pre

\* C10's case: the scheduler answered the Stage-1 submission of a staged run
\* that has no job yet with a reply that names no job id.
C10_Witness ==
    /\ last.op = "submit"
    /\ Len(last.trace) = 1
    /\ last.trace[1].outcome.rc = 0
    /\ last.trace[1].outcome.stdout = <<"Submitted batch job ", "x">>
    /\ last.raised
    /\ job_ids(run_state) = <<>>

\* The fallback notice prepare_and_upload appends.
FallbackNotice ==
    <<"Using fallback Stage1 array size ", "2", "0", "4", "8", ". ",
      "Tasks beyond discovered files will auto-skip on the cluster.">>

\* C11: prepare_and_upload never fails because of discovery.  When discovery
\* raises or finds nothing, the task count is 2048 and the warnings are the
\* reason followed by the fallback notice; when it finds n >= 1 items the task
\* count is n and there are no warnings.  Either way staging goes on: the
\* configuration is written next, the Stage-1 script carries the task count,
\* and a failure of the call is the failure of a write or of a command.
C11_DiscoveryNeverFails ==
    last.op = "prepare_and_upload" =>
        LET e == last.trace[1]
            degraded == ~e.ok \/ e.n < 1
            why == IF ~e.ok THEN <<"Local input discovery failed: ">> \o e.text
                   ELSE <<"Local input discovery found 0 files.">>
            num == IF degraded THEN 2048 ELSE e.n
            warnings == IF degraded THEN <<why, FallbackNotice>> ELSE <<>>
        IN  /\ e.kind = "discover"
            /\ Len(last.trace) >= 2
            /\ last.trace[2].kind = "write"
            /\ last.raised => ~last.trace[Len(last.trace)].ok /\ Len(last.trace) >= 2
            /\ Len(last.trace) >= 3 =>
                   last.trace[3].text =
                       generate_stage1_sbatch_script(<<"session_config.yaml">>, num,
                                                     last.profile)
            /\ ~last.raised =>
                   /\ run_state.num_tasks = num
                   /\ run_state.upload_warnings = warnings

\* C11's case: discovery raised and the upload went through with the fallback.
C11_Witness ==
    /\ last.op = "prepare_and_upload"
    /\ ~last.raised
    /\ ~last.trace[1].ok
    /\ run_state.num_tasks = 2048
    /\ Len(run_state.upload_warnings) = 2

\* The last call is a prepare_and_upload that went through: it returned, and
\* its last two steps are the mkdir and the rsync, both exiting 0.
UploadCompleted(c) ==
    /\ c.op = "prepare_and_upload"
    /\ ~c.raised
    /\ Len(c.trace) = 5
    /\ \A i \in {4, 5} : c.trace[i].kind = "run" /\ c.trace[i].outcome.rc = 0
    /\ c.trace[4].argv[1] = <<"ssh">>
    /\ c.trace[5].argv[1] = <<"rsync">>

\* C12: the held run state has no remote_run_dir at the start, and its
\* remote_run_dir changes only in a step that is a prepare_and_upload whose
\* mkdir and rsync both succeeded; a prepare_and_upload that fails returns no
\* run state and the held run state is the one held before the call.
C12_RemoteDirOnlyAfterUpload ==
    /\ run_state.remote_run_dir = None
    /\ [][run_state'.remote_run_dir # run_state.remote_run_dir => UploadCompleted(last')]_vars
    /\ []((last.op = "prepare_and_upload" /\ last.raised) =>
              (run_state = last.pre /\ last.ret = None))

\* C12's case: an upload over a staged run failed at its rsync.
C12_Witness ==
    /\ last.op = "prepare_and_upload"
    /\ last.raised
    /\ Len(last.trace) = 5
    /\ last.trace[5].outcome.rc # 0
    /\ last.pre.remote_run_dir # None
    /\ run_state = last.pre

\* C13: after a prepare_and_upload that returned, whatever run state was held
\* before, the held run state has neither job id, job_ids() is empty, and its
\* run_name, remote_run_dir, local_bundle_dir, num_tasks and upload_warnings
\* are those of this call: the directory it made remotely, the staging
\* directory it made locally, and the outcome of its discovery.
C13_UploadReplacesRunState ==
    (last.op = "prepare_and_upload" /\ ~last.raised) =>
        LET e == last.trace[1]
            degraded == ~e.ok \/ e.n < 1
        IN  /\ run_state.stage1_job_id = None
            /\ run_state.stage23_job_id = None
            /\ job_ids(run_state) = <<>>
            /\ StartsWith(run_state.run_name, <<"r", "u", "n", "_">>)
            /\ run_state.remote_run_dir =
                   RStripChars(last.profile.remote_base_dir, {"/"}) \o <<"/">>
                       \o run_state.run_name
            /\ last.trace[4].argv =
                   _ssh_argv(last.profile.host_alias,
                             <<"mkdir -p ">> \o shlex_quote(run_state.remote_run_dir))
            /\ run_state.local_bundle_dir = Mkdtemp(n_tmp)
            /\ last.trace[2].path = run_state.local_bundle_dir \o <<"/", "session_config.yaml">>
            /\ run_state.local_bundle_dir # last.pre.local_bundle_dir
            /\ run_state.num_tasks = (IF degraded THEN 2048 ELSE e.n)
            /\ (run_state.upload_warnings = <<>>) = ~degraded

\* C13's case: an upload went through over a run submitted with two job ids.
C13_Witness ==
    /\ last.op = "prepare_and_upload"
    /\ ~last.raised
    /\ Len(job_ids(last.pre)) = 2
    /\ last.pre.remote_run_dir # None
    /\ job_ids(run_state) = <<>>

\* C14: refresh_status on a run state with no submitted job id (both ids
\* null or empty) fails with the no-jobs error before any remote command.
C14_RefreshNeedsJobs ==
    (/\ last.op = "refresh_status"
     /\ Falsy(last.pre.stage1_job_id)
     /\ Falsy(last.pre.stage23_job_id)) =>
        /\ last.raised
        /\ last.error = <<"No submitted jobs to query.">>
        /\ last.trace = <<>>
        /\ run_state = last.pre

\* C14's case: refresh_status was called on a staged run with no job id.
C14_Witness ==
    /\ last.op = "refresh_status"
    /\ last.pre.remote_run_dir = <<"/", "w", "/", "r">>
    /\ last.pre.stage1_job_id = None
    /\ last.pre.stage23_job_id = <<>>
    /\ last.raised

\* C15: in refresh_status a failed sacct query does not fail the call: the
\* text returned holds the squeue rows as they came and "(sacct unavailable)"
\* where the sacct rows would be; a failed squeue query fails the call, and
\* the sacct query is then not run.
C15_SacctFailureAbsorbed ==
    (last.op = "refresh_status" /\ last.trace # <<>>) =>
        LET q == last.trace[1]
        IN  /\ StartsWith(q.argv[Len(q.argv)], <<"sh -lc ", "'", "squeue -j ">>)
            /\ q.outcome.rc # 0 =>
                   /\ last.raised
                   /\ Len(last.trace) = 1
                   /\ StartsWith(last.error, <<"Command failed: ">>)
            /\ q.outcome.rc = 0 =>
                   /\ Len(last.trace) = 2
                   /\ StartsWith(last.trace[2].argv[Len(last.trace[2].argv)],
                                 <<"sh -lc ", "'", "sacct -j ">>)
                   /\ ~last.raised
                   /\ last.trace[2].outcome.rc # 0 =>
                          last.ret =
                              <<"squeue:", "\n">>
                                  \o (IF Strip(q.outcome.stdout) = <<>> THEN <<"(no rows)">>
                                      ELSE Strip(q.outcome.stdout))
                                  \o <<"\n", "\n", "sacct:", "\n", "(sacct unavailable)">>

\* C15's case: squeue answered with rows and sacct failed.
C15_Witness ==
    /\ last.op = "refresh_status"
    /\ Len(last.trace) = 2
    /\ last.trace[1].outcome.stdout = <<"r", "o", "w", "\n">>
    /\ last.trace[2].outcome.rc # 0
    /\ ~last.raised

\* A job id that is not the empty string.
NonEmptyId(id) == id # <<>>

\* C16: cancel with no id, or with empty ids only, returns normally without
\* any remote command; with at least one non-empty id it runs exactly one
\* command, scancel followed by every non-empty id given, in the order given.
C16_CancelOneBatch ==
    last.op = "cancel" =>
        LET named == SelectSeq(last.args, NonEmptyId)
        IN  /\ named = <<>> =>
                   /\ ~last.raised
                   /\ last.trace = <<>>
                   /\ last.ret = None
            /\ named # <<>> =>
                   /\ Len(last.trace) = 1
                   /\ last.trace[1].kind = "run"
                   /\ last.trace[1].argv =
                          << <<"ssh">>, <<"-", "o">>, <<"BatchMode=yes">>, last.profile.host_alias,
                             <<"sh -lc ">>
                                 \o shlex_quote(<<"scancel ">> \o Join(named, <<" ">>)) >>
                   /\ last.raised = (last.trace[1].outcome.rc # 0)
            /\ run_state = last.pre

\* C16's case: cancel was given an empty id, then two ids, and ran one command.
C16_Witness ==
    /\ last.op = "cancel"
    /\ last.args = << <<>>, <<"4", "1">>, <<"9">> >>
    /\ Len(last.trace) = 1
    /\ ~last.raised

\* C17: tail_latest_log on a run state whose remote_run_dir is null fails
\* before any remote command; on a staged run, with or without job ids, it
\* runs exactly one remote command (in the run directory) and fails only if
\* that command fails.
C17_TailLogNeedsStagedRun ==
    last.op = "tail_log" =>
        /\ last.pre.remote_run_dir = None =>
               /\ last.raised
               /\ last.error = <<"No remote run directory available.">>
               /\ last.trace = <<>>
        /\ ~Falsy(last.pre.remote_run_dir) =>
               /\ Len(last.trace) = 1
               /\ last.trace[1].kind = "run"
               /\ last.trace[1].argv[1] = <<"ssh">>
               /\ StartsWith(last.trace[1].argv[Len(last.trace[1].argv)],
                             <<"sh -lc ", "'", "cd ">> \o shlex_quote(last.pre.remote_run_dir))
               /\ last.raised = (last.trace[1].outcome.rc # 0)
               /\ ~last.raised => last.ret = Strip(last.trace[1].outcome.stdout)
        /\ run_state = last.pre

\* C17's case: the log of a staged run with no job id was read.
C17_Witness ==
    /\ last.op = "tail_log"
    /\ ~Falsy(last.pre.remote_run_dir)
    /\ Falsy(last.pre.stage1_job_id)
    /\ Falsy(last.pre.stage23_job_id)
    /\ Len(last.trace) = 1
    /\ ~last.raised

\* The mapping's local_prefix, trailing separators stripped, equals the path
\* or is followed in the path immediately by a path separator.
PrefixMatches(path, mapping) ==
    LET prefix == RStripChars(mapping.local_prefix, Separators)
    IN  \/ path = prefix
        \/ /\ Len(path) > Len(prefix)
           /\ SubSeq(path, 1, Len(prefix)) = prefix
           /\ path[Len(prefix) + 1] \in Separators

\* C18: when no mapping's local_prefix (trailing separators stripped) equals
\* the path or is followed in it immediately by a separator, map_path returns
\* the path as given.
C18_MapPathUnchangedWithoutMatch ==
    last.op = "map_path" =>
        LET path == last.args[1]
            mappings == last.args[2]
        IN  (\A i \in 1..Len(mappings) : ~PrefixMatches(path, mappings[i])) =>
                last.ret = path

\* C18's case: /dp was mapped with /d -> /r declared, and came back as given.
C18_Witness ==
    /\ last.op = "map_path"
    /\ last.args[1] = <<"/", "d", "p">>
    /\ last.args[2] = <<PathMapping(<<"/", "d">>, <<"/", "r">>)>>
    /\ last.ret = <<"/", "d", "p">>

\* The path rewritten through a mapping: its remote_prefix without trailing
\* slashes, then "/" and what follows the local prefix and its separators in
\* the path, separators written as "/"; the remote prefix alone when nothing
\* follows.
RewrittenThrough(path, mapping) ==
    LET prefix == RStripChars(mapping.local_prefix, Separators)
        remote == RStripChars(mapping.remote_prefix, {"/"})
        rest == LStripChars(SubSeq(path, Len(prefix) + 1, Len(path)), Separators)
    IN  IF rest = <<>> THEN remote
        ELSE remote \o <<"/">> \o [i \in 1..Len(rest) |-> IF rest[i] = "\\" THEN "/" ELSE rest[i]]

\* C19: when several (non-empty) local prefixes match a path, the result is
\* the path rewritten through a mapping whose local prefix is the longest of
\* those that match, never through one with a shorter prefix.
C19_LongestPrefixWins ==
    last.op = "map_path" =>
        LET path == last.args[1]
            mappings == last.args[2]
            prefix(i) == RStripChars(mappings[i].local_prefix, Separators)
            matching == {i \in 1..Len(mappings) :
                            prefix(i) # <<>> /\ PrefixMatches(path, mappings[i])}
        IN  Cardinality(matching) >= 2 =>
                \E i \in matching :
                    /\ \A j \in matching : Len(prefix(j)) <= Len(prefix(i))
                    /\ last.ret = RewrittenThrough(path, mappings[i])

\* C19's case: /d/p/f with /d -> /r and /d/p -> /s/ declared, in that order
\* and in the other.
C19_Witness ==
    /\ last.op = "map_path"
    /\ last.args[1] = <<"/", "d", "/", "p", "/", "f">>
    /\ last.args[2] = <<PathMapping(<<"/", "d", "/", "p">>, <<"/", "s", "/">>),
                        PathMapping(<<"/", "d">>, <<"/", "r">>)>>
    /\ last.ret = <<"/", "s", "/", "f">>

\* The lists that hold the members of seq in some order.
PermutationsOf(seq) ==
    {[i \in 1..Len(seq) |-> seq[f[i]]] : f \in Permutations(1..Len(seq))}

\* C20: the result of map_path is the same for every order in which the
\* mappings are declared.
C20_MapPathOrderIndependent ==
    last.op = "map_path" =>
        \A other \in PermutationsOf(last.args[2]) :
            map_path(last.args[1], other) = last.ret

\* No two of the mappings have the same local prefix once trailing separators
\* are stripped.
DistinctLocalPrefixes(mappings) ==
    \A i, j \in 1..Len(mappings) :
        RStripChars(mappings[i].local_prefix, Separators)
            = RStripChars(mappings[j].local_prefix, Separators) => i = j

\* C20 (amended): for a collection in which no two mappings have the same
\* local prefix after stripping trailing separators, the result of map_path
\* is the same for every order in which the mappings are declared.
C20_OrderIndependentWithoutTies ==
    (last.op = "map_path" /\ DistinctLocalPrefixes(last.args[2])) =>
        \A other \in PermutationsOf(last.args[2]) :
            map_path(last.args[1], other) = last.ret

\* C20's case: /d/p/f with the shorter prefix declared first, both matching.
C20_Witness ==
    /\ last.op = "map_path"
    /\ last.args[1] = <<"/", "d", "/", "p", "/", "f">>
    /\ last.args[2] = <<PathMapping(<<"/", "d">>, <<"/", "r">>),
                        PathMapping(<<"/", "d", "/", "p">>, <<"/", "s", "/">>)>>
    /\ last.ret = <<"/", "s", "/", "f">>

\* The lines of an output with surrounding white space stripped, blank ones
\* left out.
TextLines(output) ==
    LET lines == SplitLines(output)
    IN  SelectSeq([i \in 1..Len(lines) |-> Strip(lines[i])], NonEmptyId)

\* The positions of the base-path sentinel lines among the text lines.
SentinelLines(texts) == {i \in 1..Len(texts) : Head(texts[i]) = BaseMarker}

\* The child lines: neither a base-path sentinel nor a warning.
ChildLines(texts) ==
    {texts[i] : i \in {j \in 1..Len(texts) : Head(texts[j]) \notin {BaseMarker, WarnMarker}}}

\* The call returned a listing whose path is the value of the last sentinel
\* line and whose children are the child lines, each once, in ascending
\* order.
ListingOf(texts) ==
    LET k == CHOOSE i \in SentinelLines(texts) : \A j \in SentinelLines(texts) : j <= i
        children == last.ret.children
    IN  /\ ~last.raised
        /\ last.ret.path = Tail(texts[k])
        /\ {children[i] : i \in 1..Len(children)} = ChildLines(texts)
        /\ \A i, j \in 1..Len(children) :
               i < j => (children[i] # children[j] /\ StrLessEq(children[i], children[j]))

\* C21 as stated: whenever the output has a base-path sentinel line, a
\* listing is returned with the sentinel's value as path and the other
\* non-blank, non-warning lines, deduplicated and sorted, as children.
C21_ListingForEverySentinel ==
    last.op = "parse_listing" =>
        LET texts == TextLines(last.args[1])
        IN  SentinelLines(texts) # {} => ListingOf(texts)

\* C21 (amended): the same, for an output whose last base-path sentinel line
\* carries a non-empty value; when that value is empty no listing is returned.
C21_ListingForNonEmptySentinel ==
    last.op = "parse_listing" =>
        LET texts == TextLines(last.args[1])
            S == SentinelLines(texts)
            k == CHOOSE i \in S : \A j \in S : j <= i
        IN  S # {} => IF Tail(texts[k]) # <<>> THEN ListingOf(texts) ELSE last.raised

\* C21's case: the sentinel, a child, and a child padded with white space
\* that sorts before it.
C21_Witness ==
    /\ last.op = "parse_listing"
    /\ last.args[1] = <<BaseMarker, "/", "h", "\n", "/", "h", "/", "b", "\n",
                        " ", "/", "h", "/", "a", " ", "\n">>
    /\ last.ret = RemoteDirectoryListing(<<"/", "h">>,
                                         << <<"/", "h", "/", "a">>, <<"/", "h", "/", "b">> >>)

\* C22: when the output has no base-path sentinel line, whatever else it
\* holds, parsing raises the malformed-listing error and returns no listing.
C22_NoSentinelFails ==
    last.op = "parse_listing" =>
        LET texts == TextLines(last.args[1])
        IN  SentinelLines(texts) = {} =>
                /\ last.raised
                /\ last.ret = None
                /\ last.error =
                       <<"Could not parse remote directory listing output:", "\n">>
                           \o last.args[1]

\* C22's case: two child lines and a warning, no sentinel.
C22_Witness ==
    /\ last.op = "parse_listing"
    /\ last.args[1] = <<WarnMarker, "/", "x", "\n", "/", "h", "/", "b", "\n",
                        "/", "h", "/", "a", "\n">>
    /\ last.raised

\* C23: list_remote_directories returns a list without duplicates, in the
\* order in which its values first appear among the non-blank output lines,
\* of at most max(1, limit) entries, whatever the remote tree.
C23_ShallowListCapped ==
    (last.op = "list_remote_directories" /\ ~last.raised) =>
        LET texts == TextLines(Strip(last.trace[1].outcome.stdout))
            found == last.ret
            limit == last.args[3]
        IN  /\ \A i, j \in 1..Len(found) : found[i] = found[j] => i = j
            /\ {found[i] : i \in 1..Len(found)} = {texts[i] : i \in 1..Len(texts)}
            /\ \A i, j \in 1..Len(found) :
                   i < j => \E k \in 1..Len(texts) :
                               /\ texts[k] = found[i]
                               /\ \A m \in 1..k : texts[m] # found[j]
            /\ Len(found) <= (IF limit < 1 THEN 1 ELSE limit)

\* C24: the script's array directive spans 1..num_tasks; the task with array
\* id k takes index k - 1 and processes that item iff k - 1 < n_files, else
\* it skips without failing; so once every task has run, with num_tasks >=
\* n_files, each item 0..n_files-1 was processed exactly once and every other
\* task was skipped.
C24_Stage1ArrayCoversItems ==
    last.op = "stage1_array" =>
        LET num_tasks == last.args[1]
            n_files == last.args[2]
            st == last.ret
            done == st.next - 1
        IN  /\ Cardinality({j \in 1..Len(st.script) : st.script[j] = "#SBATCH --array=1-"}) = 1
            /\ ArrayLast(st.script) = num_tasks
            /\ Contains(st.script,
                        <<"task_index = int(os.environ['SLURM_ARRAY_TASK_ID']) - 1", "\n",
                          "n_files = len(list(discover_input_files(config)))", "\n",
                          "if task_index >= n_files:", "\n">>)
            /\ done <= num_tasks
            /\ \A i \in 0..(n_files - 1) : st.ran[i] = (IF i + 1 <= done THEN 1 ELSE 0)
            /\ st.skipped = (IF done > n_files THEN done - n_files ELSE 0)
            /\ (done = num_tasks /\ num_tasks >= n_files) =>
                   /\ \A i \in 0..(n_files - 1) : st.ran[i] = 1
                   /\ st.skipped = num_tasks - n_files

\* C24's case: the fallback array of 2048 tasks has run over 3 items.
C24_Witness ==
    /\ last.op = "stage1_array"
    /\ last.args = <<2048, 3>>
    /\ last.ret.next = 2049
    /\ last.ret.skipped = 2045
    /\ \A i \in 0..2 : last.ret.ran[i] = 1

\* C25: an upload that follows an earlier one names its run differently, and
\* so stages it in a different remote directory.
C25_RunNameUnique ==
    (/\ last.op = "prepare_and_upload"
     /\ ~last.raised
     /\ last.pre.run_name # None) =>
        /\ run_state.run_name # last.pre.run_name
        /\ (RStripChars(last.profile.remote_base_dir, {"/"})
              = SubSeq(last.pre.remote_run_dir, 1,
                       Len(last.pre.remote_run_dir) - Len(last.pre.run_name) - 1))
               => run_state.remote_run_dir # last.pre.remote_run_dir

\* C26: whatever is typed into the host and base directory fields, the
\* profile a handler of the remote tab passes to the runner has a non-empty
\* host_alias and a non-empty remote_base_dir, a blank field giving the
\* default, and every ssh command the handler runs names that host.
C26_ProfileNeverBlank ==
    ~TabIdle =>
        /\ last.profile.host_alias # <<>>
        /\ last.profile.remote_base_dir # <<>>
        /\ Strip(last.args[1]) = <<>> => last.profile.host_alias = RemoteProfile.host_alias
        /\ (last.op # "list_remote_directory" /\ Strip(last.args[2]) = <<>>)
              => last.profile.remote_base_dir = RemoteProfile.remote_base_dir
        /\ \A i \in DOMAIN last.trace :
              (last.trace[i].kind = "run" /\ last.trace[i].argv[1] = <<"ssh">>) =>
                  /\ last.trace[i].argv[Len(last.trace[i].argv) - 1] = last.profile.host_alias
                  /\ last.trace[i].argv[Len(last.trace[i].argv) - 1] # <<>>

\* C26's case: both fields hold nothing but blanks, and the upload runs its
\* mkdir on the default host under the default base directory.
C26_Witness ==
    /\ last.op = "prepare_and_upload"
    /\ last.args = << <<" ", "\t">>, <<" ">> >>
    /\ ~last.raised
    /\ last.profile.host_alias = <<"d", "e", "i", "g", "o">>
    /\ StartsWith(run_state.remote_run_dir,
                  <<"~", "/", "p", "y", "f", "l", "o", "w", "r", "e", "g", "_",
                    "r", "u", "n", "s", "/">>)

IsWriteOf(e, name) ==
    /\ e.kind = "write"
    /\ Len(e.path) >= 2
    /\ SubSeq(e.path, Len(e.path) - 1, Len(e.path)) = <<"/", name>>

IsMkdir(e) ==
    /\ e.kind = "run"
    /\ e.argv[1] = <<"ssh">>
    /\ Contains(e.argv[Len(e.argv)], <<"mkdir -p ">>)

\* The directory an rsync step writes to: what follows "<host>:", without
\* the "/" at the end.
RsyncTargetDir(e, host_alias) ==
    SubSeq(e.argv[4], Len(host_alias) + 2, Len(e.argv[4]) - 1)

IsRsync(e) == e.kind = "run" /\ e.argv[1] = <<"rsync">>

\* C28: in every prepare_and_upload, any remote command comes after the
\* successful writes of session_config.yaml and stage1_array.sbatch to the
\* bundle directory; the rsync of the bundle comes right after a mkdir of the
\* remote run directory that succeeded, so it is not attempted when the mkdir
\* fails; and nothing besides those two files is written to the bundle, in
\* particular no stage23.sbatch.
C28_UploadStepOrder ==
    last.op = "prepare_and_upload" =>
        LET trace == last.trace
            bundle == SubSeq(trace[2].path, 1, Len(trace[2].path) - 2)
        IN  /\ \A i \in DOMAIN trace :
                  trace[i].kind = "run" =>
                      /\ \E j \in 1..(i - 1) :
                            IsWriteOf(trace[j], "session_config.yaml") /\ trace[j].ok
                      /\ \E j \in 1..(i - 1) :
                            IsWriteOf(trace[j], "stage1_array.sbatch") /\ trace[j].ok
                      /\ IsMkdir(trace[i]) \/ IsRsync(trace[i])
            /\ \A i \in DOMAIN trace :
                  IsRsync(trace[i]) =>
                      /\ i > 1
                      /\ IsMkdir(trace[i - 1])
                      /\ trace[i - 1].ok
                      /\ trace[i].argv[3] = bundle \o <<"/">>
                      /\ StartsWith(trace[i].argv[4], last.profile.host_alias \o <<":">>)
                      /\ trace[i - 1].argv[Len(trace[i - 1].argv)]
                            = <<"sh -lc ">>
                                \o shlex_quote(<<"mkdir -p ">>
                                    \o shlex_quote(RsyncTargetDir(trace[i],
                                                                  last.profile.host_alias)))
            /\ \A i \in DOMAIN trace :
                  trace[i].kind = "write" =>
                      /\ StartsWith(trace[i].path, bundle \o <<"/">>)
                      /\ IsWriteOf(trace[i], "session_config.yaml")
                            \/ IsWriteOf(trace[i], "stage1_array.sbatch")
                      /\ ~IsWriteOf(trace[i], "stage23.sbatch")
            /\ ~last.raised => \E i \in DOMAIN trace : IsRsync(trace[i]) /\ trace[i].ok

\* C28's case: both files were written, the mkdir failed, and the call ended
\* there.
C28_Witness ==
    /\ last.op = "prepare_and_upload"
    /\ last.raised
    /\ Len(last.trace) = 4
    /\ IsWriteOf(last.trace[2], "session_config.yaml") /\ last.trace[2].ok
    /\ IsWriteOf(last.trace[3], "stage1_array.sbatch") /\ last.trace[3].ok
    /\ IsMkdir(last.trace[4]) /\ ~last.trace[4].ok

\* The value is one the rewriting applies to: a str that is not empty, or a
\* Path.
Rewritable(value) == value.type \in {"str", "Path"} /\ value # StrValue(<<>>)

\* C29: the object map_config_paths returns differs from the caller's
\* configuration at most in root, output_root, final_results and center,
\* each only where it is present and neither None nor "", and in
\* flow_options only where that is a str or a Path; a field that changes
\* holds the translation of its value, of the same type; every other field
\* is equal; and the caller's configuration is as it was.
C29_ConfigRewriteFrame ==
    last.op = "map_config_paths" =>
        LET before == last.args[1]
            config == last.args[2]
            after == last.ret.heap
            mapped == last.ret.mapped
        IN  /\ mapped # config
            /\ after[config] = before[config]
            /\ DOMAIN after[mapped] = DOMAIN before[config]
            /\ \A f \in DOMAIN after[mapped] :
                  after[mapped][f] # before[config][f] =>
                      /\ f \in {"root", "output_root", "final_results", "center", "flow_options"}
                      /\ Rewritable(before[config][f])
                      /\ after[mapped][f].type = before[config][f].type
                      /\ after[mapped][f] = Translated(before[config][f], last.args[3])

\* C29's case: root and the flow_options path were rewritten, the empty
\* center and the field outside the fixed set were not, and the caller's
\* configuration still holds the local paths.
C29_Witness ==
    /\ last.op = "map_config_paths"
    /\ last.args[1][1].root = StrValue(<<"/", "d", "/", "f">>)
    /\ last.ret.heap[1].root = StrValue(<<"/", "d", "/", "f">>)
    /\ last.ret.heap[2].root = StrValue(<<"/", "r", "/", "f">>)
    /\ last.ret.heap[2].flow_options = PathValue(<<"/", "r", "/", "p">>)
    /\ last.ret.heap[2].center = StrValue(<<>>)
    /\ last.ret.heap[2].scheduler = StrValue(<<"/", "d", "/", "f">>)

\* The mapping's stripped local prefix is not empty and matches the path at a
\* component boundary.
BoundaryMatches(path, mapping) ==
    /\ RStripChars(mapping.local_prefix, Separators) # <<>>
    /\ PrefixMatches(path, mapping)

\* C30 as stated: a mapping applies to a path iff its stripped local prefix
\* P equals the path or is followed in it by "/" or "\\": the path is
\* rewritten through such a mapping when there is one, and is returned as
\* given when there is none.
C30_MatchAtComponentBoundary ==
    last.op = "map_path" =>
        LET path == last.args[1]
            mappings == last.args[2]
        IN  IF \E i \in 1..Len(mappings) : PrefixMatches(path, mappings[i])
            THEN \E i \in 1..Len(mappings) :
                     /\ PrefixMatches(path, mappings[i])
                     /\ last.ret = RewrittenThrough(path, mappings[i])
            ELSE last.ret = path

\* C30, amended: the same for the mappings whose stripped local prefix is not
\* empty; a mapping whose local prefix is empty once stripped ("", "/")
\* applies to no path.
C30_NonEmptyPrefixAtBoundary ==
    last.op = "map_path" =>
        LET path == last.args[1]
            mappings == last.args[2]
        IN  IF \E i \in 1..Len(mappings) : BoundaryMatches(path, mappings[i])
            THEN \E i \in 1..Len(mappings) :
                     /\ BoundaryMatches(path, mappings[i])
                     /\ last.ret = RewrittenThrough(path, mappings[i])
            ELSE last.ret = path

\* C30's case: /dp shares its leading characters with the prefixes /d and
\* /d/p of the two mappings, and neither rewrote it.
C30_Witness ==
    /\ last.op = "map_path"
    /\ last.args[1] = <<"/", "d", "p">>
    /\ last.args[2] = <<PathMapping(<<"/", "d">>, <<"/", "r">>),
                        PathMapping(<<"/", "d", "/", "p">>, <<"/", "s", "/">>)>>
    /\ last.ret = <<"/", "d", "p">>

\* The lines of the script that are the given directive followed by value.
DirectiveLines(lines, directive, value) ==
    {i \in 1..Len(lines) : lines[i] = <<directive>> \o value}

\* The lines of the script that begin with the given directive.
LinesWith(lines, directive) ==
    {i \in 1..Len(lines) : lines[i] # <<>> /\ lines[i][1] = directive}

\* C31: in both scripts the first line is the shebang and the second the
\* log-naming directive; the partition, time, mem, cpus and gpus directives
\* are there, once and with the profile's value, iff the field is non-empty
\* or non-zero, and are not there at all otherwise; and the environment
\* activation command is the line after "set -euo pipefail" iff it is
\* non-empty.
C31_OptionalDirectives ==
    last.op = "script" =>
        LET lines == SplitLines(last.ret)
            sbatch == last.profile.sbatch
            Emitted(directive, set, value) ==
                IF set
                THEN /\ Cardinality(LinesWith(lines, directive)) = 1
                     /\ LinesWith(lines, directive) = DirectiveLines(lines, directive, value)
                ELSE LinesWith(lines, directive) = {}
            strict == CHOOSE i \in 1..Len(lines) : lines[i] = <<"set -euo pipefail">>
        IN  /\ lines[1] = <<"#!/bin/bash">>
            /\ lines[2] = <<"#SBATCH -o slurm-%j.out">>
            /\ Emitted("#SBATCH --partition=", sbatch.partition # <<>>, sbatch.partition)
            /\ Emitted("#SBATCH --time=", sbatch.time # <<>>, sbatch.time)
            /\ Emitted("#SBATCH --mem=", sbatch.mem # <<>>, sbatch.mem)
            /\ Emitted("#SBATCH --cpus-per-task=", sbatch.cpus # 0, IntStr(sbatch.cpus))
            /\ Emitted("#SBATCH --gres=gpu:", sbatch.gpus # 0, IntStr(sbatch.gpus))
            /\ Cardinality({i \in 1..Len(lines) : lines[i] = <<"set -euo pipefail">>}) = 1
            /\ IF last.profile.env_activation_cmd # <<>>
               THEN /\ lines[strict + 1] = last.profile.env_activation_cmd
                    /\ lines[strict + 2] = <<"python - <<'PY'">>
               ELSE /\ lines[strict + 1] = <<"python - <<'PY'">>
                    /\ \A i \in 1..Len(lines) : lines[i] # <<"conda activate pyflowreg">>

\* C31's case: the Stage-2/3 script of a profile with a partition, 8 cpus and
\* an activation command, and with no time, mem or gpus.
C31_Witness ==
    /\ last.op = "script"
    /\ last.args = <<"stage23">>
    /\ last.profile.sbatch = [partition |-> <<"g", "p", "u">>, time |-> <<>>, mem |-> <<>>,
                              cpus |-> 8, gpus |-> 0]
    /\ last.profile.env_activation_cmd # <<>>
    /\ SubSeq(SplitLines(last.ret), 3, 7)
          = << <<"#SBATCH --partition=", "g", "p", "u">>, <<"#SBATCH --cpus-per-task=", "8">>,
               <<"#SBATCH --dependency=afterok:", "4", "1">>, <<>>, <<"set -euo pipefail">> >>

\* The step hands a job to the scheduler: an sbatch command run over ssh.
IsSbatch(e) ==
    /\ e.kind = "run"
    /\ e.argv[1] = <<"ssh">>
    /\ \E i \in 1..Len(e.argv[Len(e.argv)]) :
          e.argv[Len(e.argv)][i] \in {" && sbatch stage1_array.sbatch",
                                      "sbatch --dependency=afterok:"}

\* C32: once the run state holds a Stage-1 job id, a handler that does not
\* upload afresh hands no further job to the scheduler for that run and
\* leaves both recorded ids as they are.
C32_OneSubmissionPerRun ==
    (/\ last.op \in {"test_ssh", "list_remote_directory", "submit", "refresh", "cancel"}
     /\ ~Falsy(last.pre.stage1_job_id)) =>
        /\ \A i \in DOMAIN last.trace : ~IsSbatch(last.trace[i])
        /\ run_state.remote_run_dir = last.pre.remote_run_dir
        /\ run_state.stage1_job_id = last.pre.stage1_job_id
        /\ run_state.stage23_job_id = last.pre.stage23_job_id

\* C33: after refresh_status, tail_latest_log or cancel_jobs, returned or
\* raised, the run state is in every field what it was before the call.
C33_QueriesLeaveRunState ==
    last.op \in {"refresh_status", "tail_log", "cancel"} => run_state = last.pre

\* C33's case: the two jobs of a submitted run were cancelled, and both ids
\* are still in the run state.
C33_Witness ==
    /\ last.op = "cancel"
    /\ ~last.raised
    /\ Len(last.trace) = 1
    /\ last.args = job_ids(last.pre)
    /\ ~Falsy(run_state.stage1_job_id)
    /\ ~Falsy(run_state.stage23_job_id)

\* C34: in every run state the remote tab reaches, a remote_run_dir that is
\* set comes with run_name and local_bundle_dir set, num_tasks >= 1 and
\* config_filename "session_config.yaml"; and no call made by the tab ends
\* with submit's "Local bundle directory is missing." error.
C34_StagedRunIsComplete ==
    /\ ~Falsy(run_state.remote_run_dir) =>
          /\ ~Falsy(run_state.run_name)
          /\ run_state.local_bundle_dir # None
          /\ run_state.num_tasks >= 1
          /\ run_state.config_filename = <<"session_config.yaml">>
    /\ last.error # <<"Local bundle directory is missing.">>

\* C34's case: a run staged with the fallback task count was submitted, and
\* the submission went past the test of the bundle directory.
C34_Witness ==
    /\ last.op = "submit"
    /\ ~last.raised
    /\ run_state.num_tasks = 2048
    /\ run_state.local_bundle_dir = Mkdtemp(1)
    /\ \E i \in DOMAIN last.trace :
          last.trace[i].kind = "write" /\ last.trace[i].path = Mkdtemp(1) \o <<"/", "stage23.sbatch">>

\* The call carried out an upload: its first step is the discovery.
UploadedFirst(c) == c.trace # <<>> /\ c.trace[1].kind = "discover"

\* C35: the tab never calls submit on a run that is not staged: no call ends
\* with the "Upload first." error and every job handed to the scheduler is
\* handed over by a submit.  When the Submit handler finds no staged run, its
\* submission follows a complete upload made by the same handler, and after
\* a failed upload or without a configuration nothing is handed to the
\* scheduler; when it finds a staged run it submits that run without
\* uploading.
C35_SubmitUploadsFirst ==
    ~TabIdle =>
        /\ last.error # <<"No remote run directory available. Upload first.">>
        /\ last.op # "submit" => \A i \in DOMAIN last.trace : ~IsSbatch(last.trace[i])
        /\ (last.op = "submit" /\ Falsy(last.pre.remote_run_dir)) =>
              /\ Len(last.trace) >= 5
              /\ UploadedFirst(last)
              /\ IsMkdir(last.trace[4]) /\ last.trace[4].ok
              /\ IsRsync(last.trace[5]) /\ last.trace[5].ok
              /\ \A i \in 1..5 : ~IsSbatch(last.trace[i])
              /\ run_state.remote_run_dir
                    = RsyncTargetDir(last.trace[5], last.profile.host_alias)
        /\ (last.op = "submit" /\ ~Falsy(last.pre.remote_run_dir)) =>
              /\ \A i \in DOMAIN last.trace :
                    /\ last.trace[i].kind # "discover"
                    /\ ~IsMkdir(last.trace[i])
                    /\ ~IsWriteOf(last.trace[i], "session_config.yaml")
                    /\ ~IsWriteOf(last.trace[i], "stage1_array.sbatch")
              /\ run_state.remote_run_dir = last.pre.remote_run_dir
              /\ run_state.local_bundle_dir = last.pre.local_bundle_dir
        /\ last.op = "submit_without_config" =>
              /\ last.trace = <<>>
              /\ run_state = last.pre

\* C35's case: Submit found no staged run, uploaded one, and both jobs were
\* then submitted.
C35_Witness ==
    /\ last.op = "submit"
    /\ Falsy(last.pre.remote_run_dir)
    /\ ~last.raised
    /\ Len(last.trace) = 9
    /\ IsSbatch(last.trace[6])
    /\ IsSbatch(last.trace[9])

\* The step asks squeue for the jobs' rows.
IsSqueue(e) ==
    /\ e.kind = "run"
    /\ e.argv[1] = <<"ssh">>
    /\ Contains(e.argv[Len(e.argv)], <<"squeue -j ">>)

\* The step tails the newest slurm log of the run directory.
IsLogTail(e) ==
    /\ e.kind = "run"
    /\ e.argv[1] = <<"ssh">>
    /\ Contains(e.argv[Len(e.argv)], <<"if [ -n \"$latest\" ]; then tail -n ">>)

\* C36: Refresh without a staged run runs no command and only warns; with a
\* staged run its last command is always the log tail, preceded by the squeue
\* query exactly when the run has job ids, and each view shows its own
\* query's result or failure whatever became of the other query.
C36_RefreshQueriesIndependently ==
    /\ last.op = "refresh_without_run" =>
          /\ Falsy(last.pre.remote_run_dir)
          /\ last.trace = <<>>
          /\ last.ret.warning = <<"Upload a run before refreshing status.">>
          /\ last.ret.status_view = None /\ last.ret.log_view = None
    /\ last.op = "refresh" =>
          LET n == Len(last.trace)
              ids == job_ids(last.pre)
          IN  /\ ~Falsy(last.pre.remote_run_dir)
              /\ n >= 1
              /\ IsLogTail(last.trace[n])
              /\ \A i \in 1..(n - 1) : ~IsLogTail(last.trace[i])
              /\ IF last.trace[n].ok
                 THEN last.ret.log_view = Strip(last.trace[n].outcome.stdout)
                 ELSE StartsWith(last.ret.log_view, <<"Log tail failed: ">>)
              /\ IF ids = <<>>
                 THEN n = 1 /\ last.ret.status_view = <<"No submitted jobs yet.">>
                 ELSE /\ n >= 2
                      /\ IsSqueue(last.trace[1])
                      /\ IF last.trace[1].ok
                         THEN StartsWith(last.ret.status_view, <<"squeue:", "\n">>)
                         ELSE /\ n = 2
                              /\ StartsWith(last.ret.status_view,
                                            <<"Status query failed: ">>)

\* Refresh on a submitted run: squeue fails, the log tail still runs and fails
\* too, and each view holds its own failure.
C36_Witness ==
    /\ last.op = "refresh"
    /\ job_ids(last.pre) # <<>>
    /\ Len(last.trace) = 2
    /\ ~last.trace[1].ok /\ ~last.trace[2].ok
    /\ IsLogTail(last.trace[2])
    /\ StartsWith(last.ret.status_view, <<"Status query failed: ">>)
    /\ StartsWith(last.ret.log_view, <<"Log tail failed: ">>)

\* C37: a Cancel that runs a command runs exactly one, scancel with the ids
\* typed into the field when there are any and with the run state's job ids
\* otherwise; a Cancel with neither runs no command and warns that no job
\* ids are available; and a Cancel with either never ends in that warning.
C37_CancelPrefersExplicitIds ==
    /\ last.op = "cancel" =>
          LET wanted == IF last.ret.explicit # <<>> THEN last.ret.explicit
                        ELSE job_ids(last.pre)
          IN  /\ wanted # <<>>
              /\ Len(last.trace) = 1
              /\ last.trace[1].kind = "run"
              /\ last.trace[1].argv =
                     _ssh_argv(last.profile.host_alias,
                               <<"scancel ">> \o Join(wanted, <<" ">>))
    /\ last.op = "cancel_without_ids" =>
          /\ last.ret.explicit = <<>>
          /\ job_ids(last.pre) = <<>>
          /\ last.trace = <<>>
          /\ last.ret.warning = <<"No job ids available to cancel.">>

\* Cancel on a submitted run with two ids typed into the field: scancel is
\* given the typed ids, not the run state's.
C37_Witness ==
    /\ last.op = "cancel"
    /\ job_ids(last.pre) # <<>>
    /\ last.ret.explicit = << <<"4", "1">>, <<"9">> >>
    /\ last.ret.explicit # job_ids(last.pre)
    /\ Len(last.trace) = 1
    /\ Contains(last.trace[1].argv[Len(last.trace[1].argv)],
                <<"scancel ", "4", "1", " ", "9">>)

\* The mapping's local prefix is empty once its trailing separators are
\* stripped.
EmptyPrefix(mapping) == RStripChars(mapping.local_prefix, Separators) = <<>>

\* The mappings of the list whose stripped local prefix is not empty, in
\* their order.
RECURSIVE WithoutEmptyPrefixes(_)
WithoutEmptyPrefixes(mappings) ==
    IF mappings = <<>> THEN <<>>
    ELSE (IF EmptyPrefix(Head(mappings)) THEN <<>> ELSE <<Head(mappings)>>)
             \o WithoutEmptyPrefixes(Tail(mappings))

\* C38: map_path returns the path as given when every mapping of the list
\* has an empty stripped local prefix, and returns for any list what it
\* returns for the list with those mappings taken out.
C38_EmptyPrefixIgnored ==
    last.op = "map_path" =>
        LET path == last.args[1]
            mappings == last.args[2]
        IN  /\ (\A i \in 1..Len(mappings) : EmptyPrefix(mappings[i])) => last.ret = path
            /\ last.ret = map_path(path, WithoutEmptyPrefixes(mappings))

\* C38's case: the mapping "/" comes first and "/" begins the path, and the
\* path was rewritten through the mapping /d behind it.
C38_Witness ==
    /\ last.op = "map_path"
    /\ last.args[1] = <<"/", "d", "/", "f">>
    /\ last.args[2] = <<PathMapping(<<"/">>, <<"/", "r">>),
                        PathMapping(<<"/", "d">>, <<"/", "s", "/">>)>>
    /\ last.ret = <<"/", "s", "/", "f">>

====
